---- MODULE Spec2Model ----
(***************************************************************************)
(* Market-data retrieval layer of the Mickey2 portfolio tracker.           *)
(*                                                                         *)
(* The model follows the Twelve Data / TASE client (src/server.js, the     *)
(* MarketData module at lines 434-977): quote cache, historical cache,     *)
(* forex cache, exchange-resolution map, API key, the persisted key-value  *)
(* store and the sliding-window rate limiter.  Every await of the code is  *)
(* one step of the model; time is the millisecond clock Date.now().        *)
(*                                                                         *)
(* Numbers are fixed-point with two decimals: the integer n stands for     *)
(* n/100, so a payload value 15230 is 1523000 and 152.30 is 15230.         *)
(***************************************************************************)
EXTENDS Integers, Sequences, FiniteSets, TLC

(* ---------------------------------------------------------------------- *)
(* Bounds of the model                                                     *)
(* ---------------------------------------------------------------------- *)
\* the effort a behaviour may spend: a public operation costs 1, and 1 more for
\* each symbol of its argument list; a clock jump or a 429 answer costs 1
MaxEffort == 5
\* the effort of a behaviour that calls _apiCall directly, one call costing 1
MaxApiEffort == 12
\* what a clock jump or a 429 answer costs in such a behaviour
ApiEventCost == 3
\* the longest argument list of fetchQuotes / fetchHistorical
MaxBatch == 2

(* ---------------------------------------------------------------------- *)
(* JavaScript values                                                       *)
(* ---------------------------------------------------------------------- *)
\* null / undefined in a numeric field
Null == -1
\* the null a lookup returns (getCached, a result-map entry without data)
JSNull == [jsnull |-> TRUE]
\* the empty object {}
EmptyMap == [x \in {} |-> x]

\* _serverBase = null
NoServer == "none"

\* the symbols callers pass in
InputSymbols == {"aapl", "512345"}

\* String.prototype.toUpperCase on the input symbols
ToUpperCase(s) == IF s = "aapl" THEN "AAPL" ELSE s

Symbols == {ToUpperCase(s) : s \in InputSymbols}

\* the symbol lists callers pass in
Batches == UNION {[1..n -> InputSymbols] : n \in 0..MaxBatch}

\* the argument of fetchQuotes / fetchHistorical: null, or a list of symbols
NullArg == [null |-> TRUE, list |-> <<>>]
SymbolArgs == {NullArg} \cup {[null |-> FALSE, list |-> b] : b \in Batches}

\* !symbols || symbols.length === 0
IsEmptyArg(symbols) == symbols.null \/ Len(symbols.list) = 0

ApiKeys == {"", "K1", "K2"}

\* Object.assign({}, c) followed by delete entry._ts
StripTs(c) == [f \in (DOMAIN c) \ {"_ts"} |-> c[f]]

\* obj[k] = v on a map kept as a function
Put(m, k, v) == [x \in (DOMAIN m) \cup {k} |-> IF x = k THEN v ELSE m[x]]

\* delete obj[k]
Remove(m, k) == [x \in (DOMAIN m) \ {k} |-> m[x]]

(* ---------------------------------------------------------------------- *)
(* Module constants                                                        *)
(* ---------------------------------------------------------------------- *)
STORAGE_KEY == "marketDataApiKey"
EXCHANGE_MAP_KEY == "marketDataExchangeMap"
HISTORICAL_CACHE_KEY == "marketDataHistorical"
FOREX_CACHE_KEY == "marketDataForex"
EXCHANGES == <<"NYSE", "NASDAQ", "TSX">>
MAX_CALLS_PER_MINUTE == 8
RateWindow == 60000
RateMargin == 200
DefaultCacheTTL == 5 * 60 * 1000
_historicalCacheTTL == 24 * 60 * 60 * 1000
_forexCacheTTL == 60 * 60 * 1000
NumProxies == 2

\* TASE_PROXIES[p - 1], by its host
ProxyName(p) == IF p = 1 THEN "corsproxy.io" ELSE "api.codetabs.com"

\* /^\d+$/ on the symbols of the model
_isTaseNumber(symbol) == symbol \in {"512345"}

\* symbol + ':' + EXCHANGES[i]
Suffixed(symbol, i) ==
    IF symbol = "AAPL"
    THEN CASE i = 1 -> "AAPL:NYSE" [] i = 2 -> "AAPL:NASDAQ" [] OTHER -> "AAPL:TSX"
    ELSE CASE i = 1 -> "512345:NYSE" [] i = 2 -> "512345:NASDAQ" [] OTHER -> "512345:TSX"

(* ---------------------------------------------------------------------- *)
(* State                                                                   *)
(* ---------------------------------------------------------------------- *)
VARIABLES
    impl,               \* the MarketData implementation the page has loaded
    now,                \* Date.now(), in ms
    left,               \* the effort the behaviour may still spend
    _cache,             \* symbol -> quote fields + _ts
    _historicalCache,   \* symbol -> {ytdPrice, oneYearAgoPrice, _ts}
    _forexCache,        \* "current" / "ytdStart" / "oneYearAgo" -> {rate, _ts}
    _cacheTTL,
    _apiKey,
    _exchangeMap,       \* ticker -> resolved provider symbol
    _onProgress,        \* TRUE when a progress callback is installed
    _callTimestamps,    \* the rate-limit window
    _serverBase,        \* the relay server found by the probe, NoServer for null
    _serverProbed,      \* the probe has run
    localStorage,       \* key -> <<>> (absent) or <<value>>
    task,               \* the public call in flight and where it is suspended
    ret,                \* the last public call that completed
    dispatched,         \* dispatch times of the first request of the last _apiCalls
    configuredKey       \* <<X>> once configure({apiKey: X}) ran, the latest X

vars == <<impl, now, left, _cache, _historicalCache, _forexCache, _cacheTTL, _apiKey,
          _exchangeMap, _onProgress, _callTimestamps, _serverBase, _serverProbed,
          localStorage, task, ret, dispatched, configuredKey>>

\* the page has loaded the Twelve Data client (src/server.js)
TwelveData == impl = "twelvedata"

\* the page has loaded the auto-detecting client (src/market-data.js)
AutoDetect == impl = "autodetect"

\* the clock jumps the environment can make between two events
Deltas == {1, RateWindow, DefaultCacheTTL, DefaultCacheTTL + 1}

Idle == [op |-> "idle"]

\* set of the elements of a sequence
Range(seq) == {seq[i] : i \in DOMAIN seq}

(* ---------------------------------------------------------------------- *)
(* Persistent store                                                        *)
(* ---------------------------------------------------------------------- *)
StorageKeys == {STORAGE_KEY, EXCHANGE_MAP_KEY, HISTORICAL_CACHE_KEY, FOREX_CACHE_KEY}

\* localStorage.getItem(k): <<>> stands for null
getItem(ls, k) == ls[k]

\* localStorage.setItem(k, v)
setItem(ls, k, v) == [ls EXCEPT ![k] = <<v>>]

\* localStorage.removeItem(k)
removeItem(ls, k) == [ls EXCEPT ![k] = <<>>]

\* a number that is not finite (NaN) is written as null by JSON.stringify
NaN == -2
JSONnumber(n) == IF n = NaN THEN Null ELSE n

\* JSON.stringify / JSON.parse of a map of records of numbers
JSONstringify(m) == [k \in DOMAIN m |-> [f \in DOMAIN m[k] |-> JSONnumber(m[k][f])]]
JSONparse(text) == text

\* JSON.stringify / JSON.parse of the exchange map (a map of strings)
JSONstringifyStrings(m) == m

_loadExchangeMap(ls) ==
    LET saved == getItem(ls, EXCHANGE_MAP_KEY)
    IN  IF saved # <<>> THEN JSONparse(saved[1]) ELSE EmptyMap

_saveExchangeMap(ls, exmap) == setItem(ls, EXCHANGE_MAP_KEY, JSONstringifyStrings(exmap))

_loadHistoricalCache(ls) ==
    LET saved == getItem(ls, HISTORICAL_CACHE_KEY)
    IN  IF saved # <<>> THEN JSONparse(saved[1]) ELSE EmptyMap

_saveHistoricalCache(ls, hist) == setItem(ls, HISTORICAL_CACHE_KEY, JSONstringify(hist))

_loadForexCache(ls) ==
    LET saved == getItem(ls, FOREX_CACHE_KEY)
    IN  IF saved # <<>> THEN JSONparse(saved[1]) ELSE EmptyMap

_saveForexCache(ls, forex) == setItem(ls, FOREX_CACHE_KEY, JSONstringify(forex))

\* var _apiKey = localStorage.getItem(STORAGE_KEY) || ''
LoadApiKey(ls) ==
    LET saved == getItem(ls, STORAGE_KEY)
    IN  IF saved # <<>> /\ saved[1] # "" THEN saved[1] ELSE ""

\* the module state a call can change, as one value
ModuleState == [cache |-> _cache, hist |-> _historicalCache, forex |-> _forexCache,
                exmap |-> _exchangeMap, ts |-> _callTimestamps, ls |-> localStorage,
                base |-> _serverBase, probed |-> _serverProbed,
                key |-> _apiKey, ttl |-> _cacheTTL, onp |-> _onProgress]

(* ---------------------------------------------------------------------- *)
(* Upstream answers                                                        *)
(* ---------------------------------------------------------------------- *)
\* a string that parseFloat cannot read
Garbage == -3

\* parseFloat of a payload string
parseFloat(str) == IF str = Garbage THEN NaN ELSE str

\* the JSON bodies Twelve Data can answer a /quote request with
QuoteJsons ==
    { [code |-> 429, invalidKeyMsg |-> FALSE, symbol |-> FALSE, close |-> Null,
       previous_close |-> Null, currency |-> ""],
      \* 401 without a message: the thrown text is 'Invalid API key'
      [code |-> 401, invalidKeyMsg |-> TRUE, symbol |-> FALSE, close |-> Null,
       previous_close |-> Null, currency |-> ""],
      \* 401 with the provider's own message
      [code |-> 401, invalidKeyMsg |-> FALSE, symbol |-> FALSE, close |-> Null,
       previous_close |-> Null, currency |-> ""],
      [code |-> 404, invalidKeyMsg |-> FALSE, symbol |-> FALSE, close |-> Null,
       previous_close |-> Null, currency |-> ""],
      \* a body without code and without close
      [code |-> Null, invalidKeyMsg |-> FALSE, symbol |-> TRUE, close |-> Null,
       previous_close |-> Null, currency |-> ""],
      [code |-> Null, invalidKeyMsg |-> FALSE, symbol |-> TRUE, close |-> 27621,
       previous_close |-> 27000, currency |-> ""] }

\* what one fetch(url) to Twelve Data can end in
QuoteResponses ==
    { [kind |-> "reject"], [kind |-> "notok"], [kind |-> "badjson"] }
    \cup { [kind |-> "json", json |-> q] : q \in QuoteJsons }

\* the bodies the TASE security endpoint can answer with (through a relay)
TaseJsons ==
    { [LastRate |-> 1523000, BaseRate |-> 1500000, AnnualYield |-> 1000],
      [LastRate |-> 2765000, BaseRate |-> Null, AnnualYield |-> Null],
      [LastRate |-> Null, BaseRate |-> Null, AnnualYield |-> Null] }

\* what one fetch(url) through a relay can end in: a rejected fetch, a non-OK
\* status, an HTML page, a body that starts like JSON but does not parse, JSON
ProxyResponses ==
    { [kind |-> "reject"], [kind |-> "notok"], [kind |-> "html"], [kind |-> "badjson"] }
    \cup { [kind |-> "json", json |-> d] : d \in TaseJsons }

(* ---------------------------------------------------------------------- *)
(* The call in flight.  A machine m is the record of everything a step of  *)
(* a call can change; the operators below map machines to machines.        *)
(* ---------------------------------------------------------------------- *)
Machine == [cache |-> _cache, hist |-> _historicalCache, forex |-> _forexCache,
            exmap |-> _exchangeMap, ts |-> _callTimestamps, ls |-> localStorage,
            base |-> _serverBase, probed |-> _serverProbed,
            task |-> task, ret |-> ret, now |-> now, disp |-> dispatched]

Commit(m) ==
    /\ _cache' = m.cache
    /\ _historicalCache' = m.hist
    /\ _forexCache' = m.forex
    /\ _exchangeMap' = m.exmap
    /\ _callTimestamps' = m.ts
    /\ localStorage' = m.ls
    /\ _serverBase' = m.base
    /\ _serverProbed' = m.probed
    /\ task' = m.task
    /\ ret' = m.ret
    /\ now' = m.now
    /\ dispatched' = m.disp

\* the task record of a call that starts
NewTask(op, args, upper, stale, pre) ==
    [op |-> op, args |-> args, upper |-> upper, stale |-> stale, i |-> 1,
     try |-> <<>>, j |-> 1, pc |-> "run", attempt |-> 0, wakeAt |-> 0, waited |-> Null,
     p |-> 0, phase |-> "", cur |-> "", acc |-> Null, t0 |-> 0, needHistorical |-> FALSE,
     requested |-> {}, blocked |-> {}, seen |-> {}, fresh |-> EmptyMap, pre |-> pre]

\* the part of a machine that belongs to the module
StateOf(m) == [cache |-> m.cache, hist |-> m.hist, forex |-> m.forex, exmap |-> m.exmap,
               ts |-> m.ts, ls |-> m.ls, base |-> m.base, probed |-> m.probed,
               key |-> _apiKey, ttl |-> _cacheTTL, onp |-> _onProgress]

\* the record of a call that completes in machine m: its arguments, how it ended,
\* the requests it sent, the relay requests that were answered with an HTML page,
\* the entries that were within the TTL when it started, and whether it left the
\* module state as it found it
Done(m, status, err, value) ==
    [op |-> m.task.op, args |-> m.task.args, status |-> status, err |-> err,
     value |-> value, requested |-> m.task.requested, blocked |-> m.task.blocked,
     seen |-> m.task.seen, fresh |-> m.task.fresh, same |-> (StateOf(m) = m.task.pre)]

\* remember the last MAX_CALLS_PER_MINUTE + 1 first-request dispatch times
Remember(disp, t) ==
    LET all == Append(disp, t)
    IN  IF Len(all) > MAX_CALLS_PER_MINUTE + 1 THEN Tail(all) ELSE all

\* _apiCall, l.759-762: record the call and send the first request
ApiDispatch(m) ==
    [m EXCEPT !.ts = Append(m.ts, m.now),
              !.disp = Remember(m.disp, m.now),
              !.task.pc = "fetch",
              !.task.attempt = 0,
              !.task.requested = @ \cup {<<m.task.cur, "twelvedata">>}]

\* t is still inside the sliding window at time n
InWindow(n, t) == n - t < RateWindow

\* the window is taken as full only above MAX_CALLS_PER_MINUTE calls
ApiEnterOffByOne(m) ==
    LET filtered == SelectSeq(m.ts, LAMBDA t : InWindow(m.now, t))
        m1 == [m EXCEPT !.ts = filtered, !.task.waited = Null]
    IN  IF Len(filtered) > MAX_CALLS_PER_MINUTE
        THEN LET waitTime == RateWindow - (m.now - filtered[1]) + RateMargin
             IN  IF waitTime > 0
                 THEN [m1 EXCEPT !.task.pc = "sleep",
                                 !.task.wakeAt = m.now + waitTime,
                                 !.task.waited = filtered[1]]
                 ELSE ApiDispatch(m1)
        ELSE ApiDispatch(m1)

\* _apiCall, l.753-758: prune the window, sleep when it is full
ApiEnter(m) ==
    LET filtered == SelectSeq(m.ts, LAMBDA t : InWindow(m.now, t))
        m1 == [m EXCEPT !.ts = filtered, !.task.waited = Null]
    IN  IF Len(filtered) >= MAX_CALLS_PER_MINUTE
        THEN LET waitTime == RateWindow - (m.now - filtered[1]) + RateMargin
             IN  IF waitTime > 0
                 THEN [m1 EXCEPT !.task.pc = "sleep",
                                 !.task.wakeAt = m.now + waitTime,
                                 !.task.waited = filtered[1]]
                 ELSE ApiDispatch(m1)
        ELSE ApiDispatch(m1)

(* ---------------------------------------------------------------------- *)
(* fetchQuotes                                                             *)
(* ---------------------------------------------------------------------- *)
\* _exchangeMap[symbol] || symbol
_resolvedSymbol(exmap, symbol) == IF symbol \in DOMAIN exmap THEN exmap[symbol] ELSE symbol

\* the suffix variants are tried for a resolved ticker as well
TrySymbolsAlways(exmap, symbol) ==
    <<_resolvedSymbol(exmap, symbol)>> \o [i \in 1..Len(EXCHANGES) |-> Suffixed(symbol, i)]

\* the suffix variants are tried last to first
TrySymbolsReversed(exmap, symbol) ==
    IF symbol \in DOMAIN exmap
    THEN <<_resolvedSymbol(exmap, symbol)>>
    ELSE <<_resolvedSymbol(exmap, symbol)>> \o
         [i \in 1..Len(EXCHANGES) |-> Suffixed(symbol, Len(EXCHANGES) + 1 - i)]

\* _fetchQuoteWithFallback, l.787-794: the provider symbols to try, in order
TrySymbols(exmap, symbol) ==
    IF symbol \in DOMAIN exmap
    THEN <<_resolvedSymbol(exmap, symbol)>>
    ELSE <<_resolvedSymbol(exmap, symbol)>> \o [i \in 1..Len(EXCHANGES) |-> Suffixed(symbol, i)]

\* an entry exactly one TTL old already counts as stale
IsStaleAtTTL(cache, ttl, n, s) == s \notin DOMAIN cache \/ n - cache[s]._ts >= ttl

\* s has no cache entry or its entry is older than the TTL
IsStale(cache, ttl, n, s) == s \notin DOMAIN cache \/ n - cache[s]._ts > ttl

\* fetchQuotes, l.564-575: the result map, built from the cache
QuoteResult(cache, upper) ==
    [s \in Range(upper) |-> IF s \in DOMAIN cache THEN StripTs(cache[s]) ELSE JSNull]

\* fetchQuotes, l.555-561: stale symbols without a cache entry get a null-price entry
MarkMissing(cache, stale, ts) ==
    [s \in (DOMAIN cache) \cup Range(stale) |->
        IF s \in DOMAIN cache THEN cache[s] ELSE [price |-> Null, _ts |-> ts]]

\* fetchQuotes, l.555-575: after _fetchAllQuotes
FQ_Finish(m) ==
    LET cache2 == MarkMissing(m.cache, m.task.stale, m.now)
        m2 == [m EXCEPT !.cache = cache2]
    IN  [m2 EXCEPT !.ret = Done(m2, "ok", "", QuoteResult(cache2, m.task.upper)),
                   !.task = Idle]

\* _fetchViaProxy, l.674-678: fetch through relay number p
ProxyDispatch(m, p) ==
    [m EXCEPT !.task.pc = "proxy", !.task.p = p,
              !.task.requested = @ \cup {<<m.task.cur, ProxyName(p)>>}]

\* _fetchAllQuotes, l.831-834 with _fetchQuoteWithFallback, l.780-800: start on stale[i]
FQ_EnterSymbol(m, i) ==
    LET symbol == m.task.stale[i]
        m1 == [m EXCEPT !.task.i = i, !.task.cur = symbol, !.task.j = 1, !.task.p = 0,
                        !.task.try = <<>>]
    IN  IF _isTaseNumber(symbol)
        THEN ProxyDispatch(m1, 1)
        ELSE ApiEnter([m1 EXCEPT !.task.try = TrySymbols(m.exmap, symbol)])

\* the loop ends after its first symbol
FQ_StopAfterFirst(m) == FQ_Finish([m EXCEPT !.task.pc = "run"])

\* _fetchAllQuotes, l.831: the loop goes on to the next symbol or ends
FQ_NextSymbol(m) ==
    IF m.task.i < Len(m.task.stale)
    THEN FQ_EnterSymbol(m, m.task.i + 1)
    ELSE FQ_Finish([m EXCEPT !.task.pc = "run"])

\* _fetchAllQuotes, l.835-840: a quote came back for stale[i]
FQ_Store(m, quote) ==
    LET symbol == m.task.stale[m.task.i]
        entry == [price |-> quote.price, previousClose |-> quote.previousClose,
                  currency |-> quote.currency, _ts |-> m.now]
    IN  FQ_NextSymbol([m EXCEPT !.cache = Put(m.cache, symbol, entry),
                                !.task.seen = IF _onProgress THEN @ \cup {symbol} ELSE @])

\* _fetchQuoteWithFallback, l.796: the next provider symbol, or null after the last
FQ_NextVariant(m) ==
    IF m.task.j < Len(m.task.try)
    THEN ApiEnter([m EXCEPT !.task.j = m.task.j + 1])
    ELSE FQ_NextSymbol(m)

\* _fetchQuoteWithFallback, l.808-815: the quote made of the usable answer q
QuoteOf(q) ==
    [price |-> parseFloat(q.close),
     previousClose |-> IF q.previous_close # Null THEN parseFloat(q.previous_close) ELSE Null,
     currency |-> IF q.currency # "" THEN q.currency ELSE "USD"]

\* _fetchQuoteWithFallback, l.800-820: _apiCall returned v (or threw)
FQ_AfterApi(m, v) ==
    LET symbol == m.task.stale[m.task.i]
        sym == m.task.try[m.task.j]
        q == v.json
    IN  CASE v.kind = "throw" -> FQ_NextVariant(m)
          [] v.kind = "null" -> FQ_NextVariant(m)
          [] OTHER ->
               IF q.code = 401
               THEN IF q.invalidKeyMsg THEN FQ_NextSymbol(m) ELSE FQ_NextVariant(m)
               ELSE IF q.code # Null
               THEN FQ_NextVariant(m)
               ELSE IF q.symbol /\ q.close # Null
               THEN LET exmap2 == Put(m.exmap, symbol, sym)
                    IN  FQ_Store([m EXCEPT !.exmap = exmap2,
                                           !.ls = _saveExchangeMap(m.ls, exmap2)], QuoteOf(q))
               ELSE FQ_NextVariant(m)

\* x / 100 on fixed-point numbers
Div100(x) == x \div 100

\* price / (1 + AnnualYield / 100)
YearAgo(price, annualYield) == (price * 10000) \div (10000 + annualYield)

\* _fetchTaseQuote, l.701-721: the relay chain returned data (Null: no data)
FQ_AfterTase(m, hasData, data) ==
    IF ~hasData \/ data.LastRate = Null \/ data.LastRate = 0
    THEN FQ_NextSymbol(m)
    ELSE LET symbol == m.task.stale[m.task.i]
             price == Div100(data.LastRate)
             oneYearAgoPrice == IF data.AnnualYield # Null /\ data.AnnualYield # 0
                                THEN YearAgo(price, data.AnnualYield) ELSE Null
             hist2 == Put(m.hist, symbol, [ytdPrice |-> Null,
                                           oneYearAgoPrice |-> oneYearAgoPrice,
                                           _ts |-> m.now])
             quote == [price |-> price,
                       previousClose |-> IF data.BaseRate # Null /\ data.BaseRate # 0
                                         THEN Div100(data.BaseRate) ELSE Null,
                       currency |-> "ILS"]
         IN  FQ_Store([m EXCEPT !.hist = hist2,
                                !.ls = _saveHistoricalCache(m.ls, hist2)], quote)

\* a relay that answers with an HTML page is asked again
FQ_AfterProxyRetry(m, r) ==
    IF r.kind = "json"
    THEN FQ_AfterTase(m, TRUE, r.json)
    ELSE IF r.kind = "html"
    THEN ProxyDispatch([m EXCEPT !.task.blocked = @ \cup {<<m.task.cur, ProxyName(m.task.p)>>}],
                       m.task.p)
    ELSE IF m.task.p < NumProxies
    THEN ProxyDispatch(m, m.task.p + 1)
    ELSE FQ_AfterTase(m, FALSE, [LastRate |-> Null, BaseRate |-> Null, AnnualYield |-> Null])

\* _fetchViaProxy, l.674-688: relay p answered r
FQ_AfterProxy(m, r) ==
    LET m1 == IF r.kind = "html"
              THEN [m EXCEPT !.task.blocked = @ \cup {<<m.task.cur, ProxyName(m.task.p)>>}]
              ELSE m
    IN  IF r.kind = "json"
        THEN FQ_AfterTase(m1, TRUE, r.json)
        ELSE IF m.task.p < NumProxies
        THEN ProxyDispatch(m1, m.task.p + 1)
        ELSE FQ_AfterTase(m1, FALSE,
                          [LastRate |-> Null, BaseRate |-> Null, AnnualYield |-> Null])

(* ---------------------------------------------------------------------- *)
(* fetchHistorical                                                         *)
(* ---------------------------------------------------------------------- *)
\* the JSON bodies Twelve Data can answer a /time_series request with
TimeSeriesJsons ==
    { [code |-> 429, values |-> <<>>],
      [code |-> 400, values |-> <<>>],
      [code |-> Null, values |-> <<>>],
      [code |-> Null, values |-> <<22763>>],
      \* a close that parseFloat cannot read
      [code |-> Null, values |-> <<Garbage>>] }

TimeSeriesResponses ==
    { [kind |-> "reject"], [kind |-> "notok"], [kind |-> "badjson"] }
    \cup { [kind |-> "json", json |-> q] : q \in TimeSeriesJsons }

\* _fetchTimeSeries, l.657-661 / _fetchForexTimeSeries, l.907-911: the close of the range
SeriesClose(v) ==
    IF v.kind = "null" THEN Null
    ELSE IF v.json.code # Null THEN Null
    ELSE IF Len(v.json.values) > 0 THEN parseFloat(v.json.values[1])
    ELSE Null

\* the historical entries expire with the quote TTL
IsStaleHistoricalByQuoteTTL(hist, n, s) == s \notin DOMAIN hist \/ n - hist[s]._ts > _cacheTTL

\* fetchHistorical, l.592-594: s has no entry or its entry is older than 24 hours
IsStaleHistorical(hist, n, s) == s \notin DOMAIN hist \/ n - hist[s]._ts > _historicalCacheTTL

\* fetchHistorical, l.629-641
HistoricalResult(hist, upper) ==
    [s \in Range(upper) |->
        IF s \in DOMAIN hist
        THEN [ytdPrice |-> hist[s].ytdPrice, oneYearAgoPrice |-> hist[s].oneYearAgoPrice]
        ELSE JSNull]

FH_Finish(m) ==
    [m EXCEPT !.ret = Done(m, "ok", "", HistoricalResult(m.hist, m.task.upper)),
              !.task = Idle]

\* the prices are kept in memory and not saved
FH_StoreInMemory(m, i, ytdPrice, oyaPrice) ==
    LET symbol == m.task.stale[i]
        hist2 == Put(m.hist, symbol, [ytdPrice |-> ytdPrice, oneYearAgoPrice |-> oyaPrice,
                                      _ts |-> m.task.t0])
    IN  [m EXCEPT !.hist = hist2,
                  !.task.seen = IF _onProgress THEN @ \cup {symbol} ELSE @]

\* fetchHistorical, l.616-622: both prices of stale[i] are known
FH_Store(m, i, ytdPrice, oyaPrice) ==
    LET symbol == m.task.stale[i]
        hist2 == Put(m.hist, symbol, [ytdPrice |-> ytdPrice, oneYearAgoPrice |-> oyaPrice,
                                      _ts |-> m.task.t0])
    IN  [m EXCEPT !.hist = hist2,
                  !.ls = _saveHistoricalCache(m.ls, hist2),
                  !.task.seen = IF _onProgress THEN @ \cup {symbol} ELSE @]

\* fetchHistorical, l.611-626: the loop from stale[i] on, up to the next await;
\* _fetchTimeSeries (l.650) answers null for a TASE number without any request
RECURSIVE FH_EnterSymbol(_, _)
FH_EnterSymbol(m, i) ==
    IF i > Len(m.task.stale)
    THEN FH_Finish([m EXCEPT !.task.pc = "run"])
    ELSE LET symbol == m.task.stale[i]
         IN  IF _isTaseNumber(symbol)
             THEN FH_EnterSymbol(FH_Store(m, i, Null, Null), i + 1)
             ELSE ApiEnter([m EXCEPT !.task.i = i, !.task.cur = symbol,
                                     !.task.phase = "ytd", !.task.acc = Null])

\* fetchHistorical, l.613-625: _apiCall returned v (or threw) inside _fetchTimeSeries
FH_AfterApi(m, v) ==
    IF v.kind = "throw"
    THEN FH_EnterSymbol(m, m.task.i + 1)
    ELSE IF m.task.phase = "ytd"
    THEN ApiEnter([m EXCEPT !.task.phase = "oya", !.task.acc = SeriesClose(v)])
    ELSE FH_EnterSymbol(FH_Store(m, m.task.i, m.task.acc, SeriesClose(v)), m.task.i + 1)

(* ---------------------------------------------------------------------- *)
(* fetchForexRates                                                         *)
(* ---------------------------------------------------------------------- *)
\* getForexRates, l.918-924
getForexRates(forex) ==
    [k \in {"current", "ytdStart", "oneYearAgo"} |->
        IF k \in DOMAIN forex THEN forex[k].rate ELSE Null]

FX_Finish(m) ==
    [m EXCEPT !.ret = Done(m, "ok", "", getForexRates(m.forex)), !.task = Idle]

\* fetchForexRates, l.870-893: the historical rates, when they are needed
FX_Historical(m) ==
    IF m.task.needHistorical
    THEN ApiEnter([m EXCEPT !.task.phase = "ytd", !.task.acc = Null])
    ELSE FX_Finish([m EXCEPT !.task.pc = "run"])

\* fetchForexRates, l.862-889: _apiCall returned v (or threw)
FX_AfterApi(m, v) ==
    IF v.kind = "throw"
    THEN [m EXCEPT !.ret = Done(m, "rejected", "fetch failed", EmptyMap), !.task = Idle]
    ELSE IF m.task.phase = "current"
    THEN LET ok == v.kind = "json" /\ v.json.code = Null /\ v.json.close # Null
             forex2 == IF ok
                       THEN Put(m.forex, "current",
                                [rate |-> parseFloat(v.json.close), _ts |-> m.now])
                       ELSE m.forex
         IN  FX_Historical([m EXCEPT !.forex = forex2,
                                     !.ls = IF ok THEN _saveForexCache(m.ls, forex2) ELSE @,
                                     !.task.seen = IF _onProgress THEN @ \cup {"USD/ILS"} ELSE @])
    ELSE IF m.task.phase = "ytd"
    THEN ApiEnter([m EXCEPT !.task.phase = "oya", !.task.acc = SeriesClose(v)])
    ELSE LET ytdRate == m.task.acc
             oyaRate == SeriesClose(v)
             f1 == IF ytdRate # Null
                   THEN Put(m.forex, "ytdStart", [rate |-> ytdRate, _ts |-> m.now])
                   ELSE m.forex
             f2 == IF oyaRate # Null
                   THEN Put(f1, "oneYearAgo", [rate |-> oyaRate, _ts |-> m.now])
                   ELSE f1
         IN  FX_Finish([m EXCEPT !.forex = f2, !.ls = _saveForexCache(m.ls, f2),
                                 !.task.pc = "run",
                                 !.task.seen = IF _onProgress THEN @ \cup {"USD/ILS"} ELSE @])

(* ---------------------------------------------------------------------- *)
(* _apiCall: the answer to a request, the 429 back-off                     *)
(* ---------------------------------------------------------------------- *)
\* a caller that awaits one _apiCall and keeps what it returned
Direct_AfterApi(m, v) ==
    [m EXCEPT !.ret = Done(m, IF v.kind = "throw" THEN "rejected" ELSE "ok",
                           IF v.kind = "throw" THEN "fetch failed" ELSE "", v),
              !.task = Idle]

\* the continuation of the caller of _apiCall
ApiReturn(m, v) ==
    CASE m.task.op = "fetchQuotes" -> FQ_AfterApi(m, v)
      [] m.task.op = "fetchHistorical" -> FH_AfterApi(m, v)
      [] m.task.op = "fetchForexRates" -> FX_AfterApi(m, v)
      [] OTHER -> Direct_AfterApi(m, v)

\* the pause does not grow
BackoffFlat(attempt) == 3000

\* _apiCall, l.767: the pause after a 429 answer
Backoff(attempt) == IF attempt = 0 THEN 3000 ELSE 6000

\* _apiCall, l.761: the number of requests one call may send
MaxAttempts == 3

\* _apiCall, l.762-770: the request answered r
ApiAnswer(m, r) ==
    CASE r.kind \in {"reject", "badjson"} -> ApiReturn(m, [kind |-> "throw"])
      [] r.kind = "notok" -> ApiReturn(m, [kind |-> "null"])
      [] OTHER ->
           IF r.json.code = 429
           THEN [m EXCEPT !.task.pc = "backoff",
                          !.task.wakeAt = m.now + Backoff(m.task.attempt)]
           ELSE ApiReturn(m, r)

\* _apiCall, l.761-772: the pause is over: the next request, or null after the third
ApiRetry(m) ==
    IF m.task.attempt + 1 < MaxAttempts
    THEN [m EXCEPT !.task.pc = "fetch", !.task.attempt = m.task.attempt + 1,
                   !.task.requested = @ \cup {<<m.task.cur, "twelvedata">>}]
    ELSE ApiReturn(m, [kind |-> "null"])

\* a timer set for wakeAt fires: the clock is at wakeAt or later
Wake(m) == [m EXCEPT !.now = IF m.now < m.task.wakeAt THEN m.task.wakeAt ELSE m.now]

(* ---------------------------------------------------------------------- *)
(* Module initialisation, l.447-460                                        *)
(* ---------------------------------------------------------------------- *)
\* the in-memory state built from the store ls when the script is loaded
Load(ls) ==
    /\ _cache' = EmptyMap
    /\ _historicalCache' = _loadHistoricalCache(ls)
    /\ _forexCache' = _loadForexCache(ls)
    /\ _cacheTTL' = DefaultCacheTTL
    /\ _apiKey' = LoadApiKey(ls)
    /\ _exchangeMap' = _loadExchangeMap(ls)
    /\ _onProgress' = FALSE
    /\ _callTimestamps' = <<>>

NoCall == [op |-> "none", args |-> <<>>, status |-> "ok", err |-> "", value |-> EmptyMap,
           requested |-> {}, blocked |-> {}, seen |-> {}, fresh |-> EmptyMap, same |-> TRUE]

\* the store of a first visit, or one that holds a key saved by an earlier visit
Init ==
    /\ impl \in {"twelvedata", "autodetect"}
    /\ now = 0
    /\ left = MaxEffort
    /\ localStorage \in {[k \in StorageKeys |-> IF k = STORAGE_KEY THEN saved ELSE <<>>] :
                            saved \in IF TwelveData THEN {<<>>, <<"K1">>} ELSE {<<>>}}
    /\ _serverBase = NoServer
    /\ _serverProbed = FALSE
    /\ _cache = EmptyMap
    /\ _historicalCache = _loadHistoricalCache(localStorage)
    /\ _forexCache = _loadForexCache(localStorage)
    /\ _cacheTTL = DefaultCacheTTL
    /\ _apiKey = LoadApiKey(localStorage)
    /\ _exchangeMap = _loadExchangeMap(localStorage)
    /\ _onProgress = FALSE
    /\ _callTimestamps = <<>>
    /\ task = Idle
    /\ ret = NoCall
    /\ dispatched = <<>>
    /\ configuredKey = <<>>

(* ---------------------------------------------------------------------- *)
(* Public operations                                                       *)
(* ---------------------------------------------------------------------- *)
\* a public operation of cost c can start: nothing is in flight
CanStart(c) == task = Idle /\ c <= left


Upper(symbols) == [i \in DOMAIN symbols |-> ToUpperCase(symbols[i])]

\* the requested symbols whose cache entry exists and is within the TTL as the
\* call starts, with their entries
WithinTTL(upper) ==
    [s \in {x \in Range(upper) : x \in DOMAIN _cache /\ now - _cache[x]._ts <= _cacheTTL}
        |-> _cache[s]]

\* the key is checked before the list is looked at
fetchQuotesKeyFirst(symbols) ==
    LET upper == Upper(symbols.list)
        stale == SelectSeq(upper, LAMBDA s : IsStale(_cache, _cacheTTL, now, s))
        t == [NewTask("fetchQuotes", symbols, upper, stale, ModuleState)
                EXCEPT !.fresh = WithinTTL(upper)]
        m == [Machine EXCEPT !.task = t]
    IN  IF _apiKey = ""
        THEN [m EXCEPT !.ret = Done(m, "rejected", "API key not set", EmptyMap), !.task = Idle]
        ELSE IF IsEmptyArg(symbols)
        THEN [m EXCEPT !.ret = Done(m, "ok", "", EmptyMap), !.task = Idle]
        ELSE IF Len(stale) > 0
        THEN FQ_EnterSymbol(m, 1)
        ELSE FQ_Finish(m)

\* the key is required only when the first stale symbol is not a TASE number
fetchQuotesFirstOnly(symbols) ==
    LET upper == Upper(symbols.list)
        stale == SelectSeq(upper, LAMBDA s : IsStale(_cache, _cacheTTL, now, s))
        t == [NewTask("fetchQuotes", symbols, upper, stale, ModuleState)
                EXCEPT !.fresh = WithinTTL(upper)]
        m == [Machine EXCEPT !.task = t]
    IN  IF IsEmptyArg(symbols)
        THEN [m EXCEPT !.ret = Done(m, "ok", "", EmptyMap), !.task = Idle]
        ELSE IF Len(stale) > 0
        THEN IF ~_isTaseNumber(stale[1]) /\ _apiKey = ""
             THEN [m EXCEPT !.ret = Done(m, "rejected", "API key not set", EmptyMap),
                            !.task = Idle]
             ELSE FQ_EnterSymbol(m, 1)
        ELSE FQ_Finish(m)

\* fetchQuotes, l.540-554: up to the first await
fetchQuotes(symbols) ==
    LET upper == Upper(symbols.list)
        stale == SelectSeq(upper, LAMBDA s : IsStale(_cache, _cacheTTL, now, s))
        hasNonTase == \E i \in DOMAIN stale : ~_isTaseNumber(stale[i])
        t == [NewTask("fetchQuotes", symbols, upper, stale, ModuleState)
                EXCEPT !.fresh = WithinTTL(upper)]
        m == [Machine EXCEPT !.task = t]
    IN  IF IsEmptyArg(symbols)
        THEN [m EXCEPT !.ret = Done(m, "ok", "", EmptyMap), !.task = Idle]
        ELSE IF Len(stale) > 0
        THEN IF hasNonTase /\ _apiKey = ""
             THEN [m EXCEPT !.ret = Done(m, "rejected", "API key not set", EmptyMap),
                            !.task = Idle]
             ELSE FQ_EnterSymbol(m, 1)
        ELSE FQ_Finish(m)

FetchQuotes(symbols) ==
    /\ TwelveData
    /\ CanStart(1 + Len(symbols.list))
    /\ left' = left - (1 + Len(symbols.list))
    /\ Commit(fetchQuotes(symbols))
    /\ UNCHANGED <<impl, _cacheTTL, _apiKey, _onProgress, configuredKey>>

\* the key is required whatever the symbols are
fetchHistoricalKeyAlways(symbols) ==
    LET upper == Upper(symbols.list)
        stale == SelectSeq(upper, LAMBDA s : IsStaleHistorical(_historicalCache, now, s))
        t == [NewTask("fetchHistorical", symbols, upper, stale, ModuleState) EXCEPT !.t0 = now]
        m == [Machine EXCEPT !.task = t]
    IN  IF IsEmptyArg(symbols)
        THEN [m EXCEPT !.ret = Done(m, "ok", "", EmptyMap), !.task = Idle]
        ELSE IF _apiKey = ""
        THEN [m EXCEPT !.ret = Done(m, "rejected", "API key not set", EmptyMap), !.task = Idle]
        ELSE FH_EnterSymbol(m, 1)

\* fetchHistorical, l.583-611: up to the first await
fetchHistorical(symbols) ==
    LET upper == Upper(symbols.list)
        hasNonTase == \E i \in DOMAIN upper : ~_isTaseNumber(upper[i])
        stale == SelectSeq(upper, LAMBDA s : IsStaleHistorical(_historicalCache, now, s))
        t == [NewTask("fetchHistorical", symbols, upper, stale, ModuleState) EXCEPT !.t0 = now]
        m == [Machine EXCEPT !.task = t]
    IN  IF IsEmptyArg(symbols)
        THEN [m EXCEPT !.ret = Done(m, "ok", "", EmptyMap), !.task = Idle]
        ELSE IF hasNonTase /\ _apiKey = ""
        THEN [m EXCEPT !.ret = Done(m, "rejected", "API key not set", EmptyMap), !.task = Idle]
        ELSE FH_EnterSymbol(m, 1)

FetchHistorical(symbols) ==
    /\ TwelveData
    /\ CanStart(1 + Len(symbols.list))
    /\ left' = left - (1 + Len(symbols.list))
    /\ Commit(fetchHistorical(symbols))
    /\ UNCHANGED <<impl, _cacheTTL, _apiKey, _onProgress, configuredKey>>

\* fetchForexRates, l.853-862: up to the first await
fetchForexRates ==
    LET needCurrent == "current" \notin DOMAIN _forexCache
                       \/ now - _forexCache["current"]._ts > _forexCacheTTL
        needHistorical == "ytdStart" \notin DOMAIN _forexCache
                          \/ now - _forexCache["ytdStart"]._ts > _historicalCacheTTL
        t == [NewTask("fetchForexRates", <<>>, <<>>, <<>>, ModuleState)
                EXCEPT !.needHistorical = needHistorical, !.cur = "USD/ILS"]
        m == [Machine EXCEPT !.task = t]
    IN  IF _apiKey = ""
        THEN [m EXCEPT !.ret = Done(m, "rejected", "API key not set", EmptyMap), !.task = Idle]
        ELSE IF needCurrent
        THEN ApiEnter([m EXCEPT !.task.phase = "current"])
        ELSE FX_Historical(m)

FetchForexRates ==
    /\ TwelveData
    /\ CanStart(2)
    /\ left' = left - 2
    /\ Commit(fetchForexRates)
    /\ UNCHANGED <<impl, _cacheTTL, _apiKey, _onProgress, configuredKey>>

\* the option objects callers pass to configure; <<>> is an option left undefined
ConfigOptions ==
    { [cacheTTL |-> <<>>, apiKey |-> <<k>>, onProgress |-> <<>>] : k \in ApiKeys }
    \cup { [cacheTTL |-> <<0>>, apiKey |-> <<>>, onProgress |-> <<>>],
           [cacheTTL |-> <<>>, apiKey |-> <<>>, onProgress |-> <<TRUE>>] }

\* configure keeps the key in memory only
configureInMemory(options) ==
    /\ _cacheTTL' = IF options.cacheTTL # <<>> THEN options.cacheTTL[1] ELSE _cacheTTL
    /\ _apiKey' = IF options.apiKey # <<>> THEN options.apiKey[1] ELSE _apiKey
    /\ localStorage' = localStorage
    /\ _onProgress' = IF options.onProgress # <<>> THEN options.onProgress[1] ELSE _onProgress

\* configure, l.519-526
configure(options) ==
    /\ _cacheTTL' = IF options.cacheTTL # <<>> THEN options.cacheTTL[1] ELSE _cacheTTL
    /\ _apiKey' = IF options.apiKey # <<>> THEN options.apiKey[1] ELSE _apiKey
    /\ localStorage' = IF options.apiKey # <<>>
                       THEN setItem(localStorage, STORAGE_KEY, options.apiKey[1])
                       ELSE localStorage
    /\ _onProgress' = IF options.onProgress # <<>> THEN options.onProgress[1] ELSE _onProgress

Configure(options) ==
    /\ TwelveData
    /\ CanStart(1)
    /\ left' = left - 1
    /\ configure(options)
    /\ configuredKey' = IF options.apiKey # <<>> THEN options.apiKey ELSE configuredKey
    /\ UNCHANGED <<impl, now, _cache, _historicalCache, _forexCache, _exchangeMap,
                   _callTimestamps, _serverBase, _serverProbed, task, dispatched>>
    /\ ret' = [NoCall EXCEPT !.op = "configure", !.args = <<options>>,
                             !.same = (ModuleState' = ModuleState)]

\* getApiKey, l.529-531
getApiKey == _apiKey

\* getCached, l.929-935
getCached(symbol) ==
    LET s == ToUpperCase(symbol)
    IN  IF s \notin DOMAIN _cache THEN JSNull ELSE StripTs(_cache[s])

\* getHistorical, l.940-944
getHistorical(symbol) ==
    LET s == ToUpperCase(symbol)
    IN  IF s \notin DOMAIN _historicalCache THEN JSNull
        ELSE [ytdPrice |-> _historicalCache[s].ytdPrice,
              oneYearAgoPrice |-> _historicalCache[s].oneYearAgoPrice]

\* clearCache forgets the forex cache and its stored copy
clearCacheKeepForex(st) ==
    [st EXCEPT !.cache = EmptyMap, !.hist = EmptyMap, !.exmap = EmptyMap,
               !.ls = removeItem(removeItem(st.ls, EXCHANGE_MAP_KEY), HISTORICAL_CACHE_KEY)]

\* a variant of clearCache that empties the whole store
clearCacheAndStore(st) ==
    [st EXCEPT !.cache = EmptyMap, !.hist = EmptyMap, !.exmap = EmptyMap,
               !.forex = EmptyMap, !.ls = [k \in StorageKeys |-> <<>>]]

\* clearCache, l.947-964, on the module state st
clearCache(st) ==
    [st EXCEPT !.cache = EmptyMap, !.hist = EmptyMap, !.exmap = EmptyMap,
               !.forex = EmptyMap,
               !.ls = removeItem(removeItem(removeItem(st.ls, EXCHANGE_MAP_KEY),
                                            HISTORICAL_CACHE_KEY), FOREX_CACHE_KEY)]

ClearCache ==
    /\ TwelveData
    /\ CanStart(1)
    /\ left' = left - 1
    /\ LET st == clearCache(ModuleState)
       IN  /\ _cache' = st.cache
           /\ _historicalCache' = st.hist
           /\ _exchangeMap' = st.exmap
           /\ _forexCache' = st.forex
           /\ localStorage' = st.ls
    /\ UNCHANGED <<impl, now, _cacheTTL, _apiKey, _onProgress, _callTimestamps,
                   _serverBase, _serverProbed, task, dispatched, configuredKey>>
    /\ ret' = [NoCall EXCEPT !.op = "clearCache", !.same = (ModuleState' = ModuleState)]

\* the page is loaded again: the module is built anew from the store
Reload ==
    /\ TwelveData
    /\ CanStart(1)
    /\ left' = left - 1
    /\ Load(localStorage)
    /\ dispatched' = <<>>
    /\ UNCHANGED <<impl, now, _serverBase, _serverProbed, localStorage, task,
                   configuredKey>>
    /\ ret' = [NoCall EXCEPT !.op = "reload", !.same = (ModuleState' = ModuleState)]

(* ---------------------------------------------------------------------- *)
(* Events that resume the call in flight                                   *)
(* ---------------------------------------------------------------------- *)
InFlight == task # Idle

\* the answers the request in flight can get
Answers ==
    IF task.op \in {"fetchQuotes", "_apiCall"}
       \/ (task.op = "fetchForexRates" /\ task.phase = "current")
    THEN QuoteResponses
    ELSE TimeSeriesResponses

\* the answer is the provider's "too many requests"
RateLimited(r) == r.kind = "json" /\ r.json.code = 429

\* the request of _apiCall is answered
Respond(r, cost) ==
    /\ InFlight
    /\ task.pc = "fetch"
    /\ RateLimited(r) => left >= cost
    /\ left' = IF RateLimited(r) THEN left - cost ELSE left
    /\ Commit(ApiAnswer(Machine, r))
    /\ UNCHANGED <<impl, _cacheTTL, _apiKey, _onProgress, configuredKey>>

ApiRespond(r) == Respond(r, 1)

\* the proactive pause of _apiCall is over, l.757-759
SleepWake ==
    /\ InFlight
    /\ task.pc = "sleep"
    /\ Commit(ApiDispatch(Wake(Machine)))
    /\ UNCHANGED <<impl, left, _cacheTTL, _apiKey, _onProgress, configuredKey>>

\* the pause after a 429 answer is over, l.767-768
BackoffWake ==
    /\ InFlight
    /\ task.pc = "backoff"
    /\ Commit(ApiRetry(Wake(Machine)))
    /\ UNCHANGED <<impl, left, _cacheTTL, _apiKey, _onProgress, configuredKey>>

\* the request through a relay is answered
ProxyRespond(r) ==
    /\ InFlight
    /\ task.pc = "proxy"
    /\ Commit(FQ_AfterProxy(Machine, r))
    /\ UNCHANGED <<impl, left, _cacheTTL, _apiKey, _onProgress, configuredKey>>

\* time passes between two calls
Elapse(d, cost) ==
    /\ CanStart(cost)
    /\ left' = left - cost
    /\ now' = now + d
    /\ UNCHANGED <<impl, _cache, _historicalCache, _forexCache, _cacheTTL, _apiKey,
                   _exchangeMap, _onProgress, _callTimestamps, _serverBase, _serverProbed,
                   localStorage, task, ret, dispatched, configuredKey>>

Tick(d) == Elapse(d, 1)

(* ---------------------------------------------------------------------- *)
(* The auto-detecting client (src/market-data.js, l.245-558): quotes from  *)
(* Yahoo and TASE through a local relay server when the probe finds one,   *)
(* through the CORS proxy otherwise.  The requests of one call are in      *)
(* flight together and are answered in any order.                          *)
(* ---------------------------------------------------------------------- *)
\* the probes of _findServer: the page's origin, then the four local ports
NumPings == 5
\* the symbols of one chunk of proxied Yahoo requests / proxied TASE requests
YahooChunk == 3
TaseChunk == 2

\* the base URL of probe k, l.310 and l.319-322
PingBase(k) ==
    CASE k = 1 -> ""
      [] k = 2 -> "http://localhost:8081"
      [] k = 3 -> "http://localhost:8080"
      [] k = 4 -> "http://localhost:3000"
      [] OTHER -> "http://localhost:5000"

\* what _fetchWithTimeout returns for a probe: an ok response, another response,
\* or null after a rejection or the timeout
PingResponses == {"ok", "notok", "null"}

\* /^\d{5,8}$/ on the symbols of the model
_isIsraeliSecurity(symbol) == symbol \in {"512345"}

\* the shapes of a chart body: null, an object without chart, a chart without
\* result, an empty result list, a result[0] without meta, a result[0] with meta
ChartShapes == {"null", "nochart", "noresult", "empty", "nometa", "meta"}

\* a chart body of the given shape; the three fields are those of meta
Chart(shape, currency, price, prevClose) ==
    [shape |-> shape, currency |-> currency, regularMarketPrice |-> price,
     chartPreviousClose |-> prevClose]

\* the chart bodies Yahoo answers with in a call: without a result, with a
\* result[0] that has no meta, in USD, in agorot
YahooCharts ==
    { Chart("noresult", "", Null, Null),
      Chart("nometa", "", Null, Null),
      Chart("meta", "USD", 18550, 18400),
      Chart("meta", "ILA", 1523000, Null) }

\* what a parser call ends in: a thrown TypeError, null (<<>>) or a quote
Threw == [threw |-> TRUE, quote |-> <<>>]
Returned(quote) == [threw |-> FALSE, quote |-> quote]

\* _parseYahooChart, l.265-283
_parseYahooChart(json) ==
    IF json.shape \in {"null", "nochart", "noresult", "empty"}
    THEN Returned(<<>>)
    ELSE IF json.shape = "nometa"
    THEN Threw
    ELSE LET ila == json.currency = "ILA"
             price == json.regularMarketPrice
             prevClose == json.chartPreviousClose
         IN  Returned(<< [price |-> IF price = Null THEN Null
                                    ELSE IF ila THEN Div100(price) ELSE price,
                          previousClose |-> IF prevClose = Null THEN Null
                                            ELSE IF ila THEN Div100(prevClose)
                                            ELSE prevClose,
                          currency |-> IF json.currency = "" THEN "USD"
                                       ELSE IF ila THEN "ILS" ELSE json.currency] >>)

\* _parseTASEResult, l.524-534: data is null (shape "null") or an object whose
\* price is absent (Null) or a number
_parseTASEResult(data) ==
    IF data.shape = "null" \/ data.price \in {Null, 0}
    THEN Returned(<<>>)
    ELSE Returned(<< [price |-> Div100(data.price), previousClose |-> Null,
                      currency |-> "ILS"] >>)

\* the requests of a call: one batch request to the relay server, or one
\* proxied request per symbol (two per TASE number: security data and fund)
YahooBatch == [ep |-> "/api/yahoo/batch", i |-> 0]
TaseBatch == [ep |-> "/api/tase/batch", i |-> 0]
YahooProxied(i) == [ep |-> "proxy:chart", i |-> i]
TaseStock(i) == [ep |-> "proxy:securitydata", i |-> i]
TaseFund(i) == [ep |-> "proxy:fund", i |-> i]

\* the answers to request q of the call in flight: null stands for a failed,
\* timed-out or non-OK fetch, a body that is not JSON, or a proxied status >= 400
AnswersTo(q) ==
    {[kind |-> "null"]} \cup
    CASE q = YahooBatch ->
           {[kind |-> "json", json |-> d] :
               d \in UNION {[S -> YahooCharts] : S \in SUBSET Range(task.yahoo)}}
      [] q = TaseBatch ->
           {[kind |-> "json", json |-> d] :
               d \in UNION {[S -> {[shape |-> "object", price |-> 1523000],
                                     [shape |-> "object", price |-> 0]}] :
                               S \in SUBSET Range(task.tase)}}
      [] q.ep = "proxy:chart" -> {[kind |-> "json", json |-> c] : c \in YahooCharts}
      [] q.ep = "proxy:securitydata" ->
           {[kind |-> "json", json |-> [LastRate |-> v]] : v \in {1523000, Null}}
      [] OTHER ->
           {[kind |-> "json", json |-> [UnitValuePrice |-> v]] : v \in {2765000, Null}}

\* the locals of a fetchQuotes call that starts
AutoTask(args, pre) ==
    [op |-> "fetchQuotes", args |-> args, pc |-> "ping", k |-> 1, upper |-> <<>>,
     stale |-> <<>>, yahoo |-> <<>>, tase |-> <<>>, pending |-> {}, fetched |-> EmptyMap,
     got |-> EmptyMap, done |-> 0, requested |-> {}, blocked |-> {}, seen |-> {},
     fresh |-> EmptyMap, pre |-> pre]

\* fetchQuotes, l.397-414: every request is settled: merge what was fetched into
\* the cache and build the result
AD_Finish(m) ==
    LET fetched == m.task.fetched
        cache2 == [s \in (DOMAIN m.cache) \cup (DOMAIN fetched) |->
                      IF s \in DOMAIN fetched
                      THEN [price |-> fetched[s].price,
                            previousClose |-> fetched[s].previousClose,
                            currency |-> fetched[s].currency, _ts |-> m.now]
                      ELSE m.cache[s]]
        m2 == [m EXCEPT !.cache = cache2]
    IN  [m2 EXCEPT !.ret = Done(m2, "ok", "", QuoteResult(cache2, m.task.upper)),
                   !.task = Idle]

\* the last index of the chunk of the given size that starts at ci
ChunkEnd(ci, size, len) == IF ci + size - 1 < len THEN ci + size - 1 ELSE len

\* the first index of the chunk after the one index i is in
NextChunk(i, size) == ((i - 1) \div size) * size + size + 1

\* _fetchYahooSymbols, l.443-454: the proxied requests of the chunk starting at ci
AD_YahooChunk(m, ci) ==
    LET idx == ci..ChunkEnd(ci, YahooChunk, Len(m.task.yahoo))
    IN  [m EXCEPT !.task.pending = @ \cup {YahooProxied(i) : i \in idx},
                  !.task.requested = @ \cup {<<m.task.yahoo[i], "proxy:chart">> : i \in idx}]

\* _fetchYahooSymbols, l.420-425: the batch request, or the first chunk
AD_StartYahoo(m) ==
    IF Len(m.task.yahoo) = 0
    THEN m
    ELSE IF m.base # NoServer
    THEN [m EXCEPT !.task.pending = @ \cup {YahooBatch},
                   !.task.requested = @ \cup {<<sym, YahooBatch.ep>> : sym \in Range(m.task.yahoo)}]
    ELSE AD_YahooChunk(m, 1)

\* _fetchTASESymbols, l.483-493: the proxied requests of the chunk starting at ci
AD_TaseChunk(m, ci) ==
    LET idx == ci..ChunkEnd(ci, TaseChunk, Len(m.task.tase))
    IN  [m EXCEPT !.task.pending = @ \cup {TaseStock(i) : i \in idx} \cup {TaseFund(i) : i \in idx},
                  !.task.requested = @ \cup {<<m.task.tase[i], "proxy:securitydata">> : i \in idx}
                                       \cup {<<m.task.tase[i], "proxy:fund">> : i \in idx}]

\* _fetchTASESymbols, l.460-465: the batch request, or the first chunk
AD_StartTase(m) ==
    IF Len(m.task.tase) = 0
    THEN m
    ELSE IF m.base # NoServer
    THEN [m EXCEPT !.task.pending = @ \cup {TaseBatch},
                   !.task.requested = @ \cup {<<id, TaseBatch.ep>> : id \in Range(m.task.tase)}]
    ELSE AD_TaseChunk(m, 1)

\* fetched[sym] = q when a quote was parsed
Fetched(fetched, sym, parsed) == IF parsed = <<>> THEN fetched ELSE Put(fetched, sym, parsed[1])

\* the loop over a batch answer, l.428-435 and l.468-475: the index of the
\* first symbol whose item makes the parser throw, 0 when there is none; parsed
\* maps the symbols of the answer to what the parser made of their items
FirstThrow(syms, parsed) ==
    LET bad == {i \in DOMAIN syms : syms[i] \in DOMAIN parsed /\ parsed[syms[i]].threw}
    IN  IF bad = {} THEN 0 ELSE CHOOSE i \in bad : \A k \in bad : i <= k

\* the symbols the loop went through: all of them, or those before the throw
Looped(syms, parsed) ==
    IF FirstThrow(syms, parsed) = 0
    THEN syms
    ELSE SubSeq(syms, 1, FirstThrow(syms, parsed) - 1)

\* fetched after the loop
FetchedBatch(fetched, syms, parsed) ==
    LET found == {s \in Range(Looped(syms, parsed)) :
                     s \in DOMAIN parsed /\ parsed[s].quote # <<>>}
    IN  [s \in (DOMAIN fetched) \cup found |->
            IF s \in found THEN parsed[s].quote[1] ELSE fetched[s]]

\* the pair rule with the fund endpoint taking precedence
TaseQuoteFundFirst(stockData, fundData) ==
    IF fundData.kind = "json" /\ fundData.json.UnitValuePrice # Null
    THEN << [price |-> Div100(fundData.json.UnitValuePrice), previousClose |-> Null,
             currency |-> "ILS"] >>
    ELSE IF stockData.kind = "json" /\ stockData.json.LastRate # Null
    THEN << [price |-> Div100(stockData.json.LastRate), previousClose |-> Null,
             currency |-> "ILS"] >>
    ELSE <<>>

\* _fetchTASESymbols, l.494-516: both proxied answers for one TASE number are in
TaseQuote(stockData, fundData) ==
    IF stockData.kind = "json" /\ stockData.json.LastRate # Null
    THEN << [price |-> Div100(stockData.json.LastRate), previousClose |-> Null,
             currency |-> "ILS"] >>
    ELSE IF fundData.kind = "json" /\ fundData.json.UnitValuePrice # Null
    THEN << [price |-> Div100(fundData.json.UnitValuePrice), previousClose |-> Null,
             currency |-> "ILS"] >>
    ELSE <<>>

\* request q of the call in flight is answered r: the continuation of the
\* promise that awaited it
AD_Settle(m, q, r) ==
    LET m0 == [m EXCEPT !.task.pending = @ \ {q}]
        t == m0.task
    IN  CASE q = YahooBatch ->
               IF r.kind = "json"
               THEN LET parsed == [s \in DOMAIN r.json |-> _parseYahooChart(r.json[s])]
                        m1 == [m0 EXCEPT !.task.fetched = FetchedBatch(@, t.yahoo, parsed),
                                         !.task.done = @ + Len(Looped(t.yahoo, parsed))]
                    IN  IF FirstThrow(t.yahoo, parsed) = 0 THEN m1 ELSE AD_YahooChunk(m1, 1)
               ELSE AD_YahooChunk(m0, 1)
          [] q = TaseBatch ->
               IF r.kind = "json"
               THEN LET parsed == [s \in DOMAIN r.json |-> _parseTASEResult(r.json[s])]
                    IN  [m0 EXCEPT !.task.fetched = FetchedBatch(@, t.tase, parsed),
                                   !.task.done = @ + Len(t.tase)]
               ELSE AD_TaseChunk(m0, 1)
          [] q.ep = "proxy:chart" ->
               LET parsed == IF r.kind = "json" THEN _parseYahooChart(r.json).quote ELSE <<>>
                   m1 == [m0 EXCEPT !.task.fetched = Fetched(@, t.yahoo[q.i], parsed),
                                    !.task.done = @ + 1]
               IN  IF \E x \in t.pending : x.ep = "proxy:chart"
                   THEN m1
                   ELSE AD_YahooChunk(m1, NextChunk(q.i, YahooChunk))
          [] OTHER ->
               LET other == IF q.ep = "proxy:fund" THEN TaseStock(q.i) ELSE TaseFund(q.i)
               IN  IF other \notin DOMAIN t.got
                   THEN [m0 EXCEPT !.task.got = Put(@, q, r)]
                   ELSE LET stockData == IF q.ep = "proxy:fund" THEN t.got[other] ELSE r
                            fundData == IF q.ep = "proxy:fund" THEN r ELSE t.got[other]
                            m1 == [m0 EXCEPT !.task.got = Remove(@, other),
                                             !.task.fetched =
                                                 Fetched(@, t.tase[q.i],
                                                         TaseQuote(stockData, fundData)),
                                             !.task.done = @ + 1]
                        IN  IF \E x \in t.pending : x.ep \in {"proxy:fund", "proxy:securitydata"}
                            THEN m1
                            ELSE AD_TaseChunk(m1, NextChunk(q.i, TaseChunk))

\* what was fetched so far is put into the cache after every answer
AD_AfterAnswerEager(m, q, r) ==
    LET m1 == AD_Settle(m, q, r)
        fetched == m1.task.fetched
        eager == [s \in (DOMAIN m1.cache) \cup (DOMAIN fetched) |->
                     IF s \in DOMAIN fetched
                     THEN [price |-> fetched[s].price,
                           previousClose |-> fetched[s].previousClose,
                           currency |-> fetched[s].currency, _ts |-> m.now]
                     ELSE m1.cache[s]]
    IN  IF m1.task.pending = {} THEN AD_Finish(m1) ELSE [m1 EXCEPT !.cache = eager]

\* Promise.all, l.395: the call goes on once nothing is pending
AD_AfterAnswer(m, q, r) ==
    LET m1 == AD_Settle(m, q, r)
    IN  IF m1.task.pending = {} THEN AD_Finish(m1) ELSE m1

\* fetchQuotes, l.368-395: after _findServer
AD_AfterFind(m) ==
    LET upper == Upper(m.task.args.list)
        stale == SelectSeq(upper, LAMBDA s : IsStale(m.cache, _cacheTTL, m.now, s))
        m1 == [m EXCEPT !.task.pc = "requests",
                        !.task.upper = upper,
                        !.task.stale = stale,
                        !.task.tase = SelectSeq(stale, _isIsraeliSecurity),
                        !.task.yahoo = SelectSeq(stale, LAMBDA s : ~_isIsraeliSecurity(s)),
                        !.task.fresh = [s \in {x \in Range(upper) :
                                                  x \in DOMAIN m.cache
                                                  /\ m.now - m.cache[x]._ts <= _cacheTTL}
                                           |-> m.cache[s]]]
    IN  IF Len(stale) = 0 THEN AD_Finish(m1) ELSE AD_StartTase(AD_StartYahoo(m1))

\* _findServer, l.304-310: the first probe, unless the probe has run before;
\* the time at which the probing starts is remembered
_findServer(m) ==
    IF m.probed
    THEN AD_AfterFind(m)
    ELSE [m EXCEPT !.probed = TRUE,
                   !.disp = Remember(m.disp, m.now),
                   !.task.pc = "ping",
                   !.task.k = 1,
                   !.task.requested = @ \cup {<<"/api/ping", PingBase(1)>>}]

\* _findServer, l.311-334: probe k is answered r
AD_AfterPing(m, r) ==
    IF r = "ok"
    THEN AD_AfterFind([m EXCEPT !.base = PingBase(m.task.k)])
    ELSE IF m.task.k < NumPings
    THEN [m EXCEPT !.task.k = @ + 1,
                   !.task.requested = @ \cup {<<"/api/ping", PingBase(m.task.k + 1)>>}]
    ELSE AD_AfterFind([m EXCEPT !.base = NoServer])

\* fetchQuotes, l.362-366: up to the first await
fetchQuotesAuto(symbols) ==
    LET m == [Machine EXCEPT !.task = AutoTask(symbols, ModuleState)]
    IN  IF IsEmptyArg(symbols)
        THEN [m EXCEPT !.ret = Done(m, "ok", "", EmptyMap), !.task = Idle]
        ELSE _findServer(m)

FetchQuotesAuto(symbols) ==
    /\ AutoDetect
    /\ CanStart(1 + Len(symbols.list))
    /\ left' = left - (1 + Len(symbols.list))
    /\ Commit(fetchQuotesAuto(symbols))
    /\ UNCHANGED <<impl, _cacheTTL, _apiKey, _onProgress, configuredKey>>

\* a probe of _findServer is answered
PingRespond(r) ==
    /\ AutoDetect
    /\ InFlight
    /\ task.pc = "ping"
    /\ Commit(AD_AfterPing(Machine, r))
    /\ UNCHANGED <<impl, left, _cacheTTL, _apiKey, _onProgress, configuredKey>>

\* the requests in flight
Pending == IF AutoDetect /\ InFlight /\ task.pc = "requests" THEN task.pending ELSE {}

\* one of the requests in flight is answered
FetchRespond(q, r) ==
    /\ q \in Pending
    /\ Commit(AD_AfterAnswer(Machine, q, r))
    /\ UNCHANGED <<impl, left, _cacheTTL, _apiKey, _onProgress, configuredKey>>

\* configure, l.254-257, with a cacheTTL
ConfigureAuto(ttl) ==
    /\ AutoDetect
    /\ CanStart(1)
    /\ left' = left - 1
    /\ _cacheTTL' = ttl
    /\ UNCHANGED <<impl, now, _cache, _historicalCache, _forexCache, _apiKey, _exchangeMap,
                   _onProgress, _callTimestamps, _serverBase, _serverProbed, localStorage,
                   task, dispatched, configuredKey>>
    /\ ret' = [NoCall EXCEPT !.op = "configure", !.same = (ModuleState' = ModuleState)]

\* clearCache, l.544-550, on the module state st
clearCacheAuto(st) == [st EXCEPT !.cache = EmptyMap]

ClearCacheAuto ==
    /\ AutoDetect
    /\ CanStart(1)
    /\ left' = left - 1
    /\ _cache' = clearCacheAuto(ModuleState).cache
    /\ UNCHANGED <<impl, now, _historicalCache, _forexCache, _cacheTTL, _apiKey,
                   _exchangeMap, _onProgress, _callTimestamps, _serverBase, _serverProbed,
                   localStorage, task, dispatched, configuredKey>>
    /\ ret' = [NoCall EXCEPT !.op = "clearCache", !.same = (ModuleState' = ModuleState)]

\* the page is loaded again, l.248-252
ReloadAuto ==
    /\ AutoDetect
    /\ CanStart(1)
    /\ left' = left - 1
    /\ _cache' = EmptyMap
    /\ _cacheTTL' = DefaultCacheTTL
    /\ _serverBase' = NoServer
    /\ _serverProbed' = FALSE
    /\ UNCHANGED <<impl, now, _historicalCache, _forexCache, _apiKey, _exchangeMap,
                   _onProgress, _callTimestamps, localStorage, task, dispatched,
                   configuredKey>>
    /\ ret' = [NoCall EXCEPT !.op = "reload", !.same = (ModuleState' = ModuleState)]

Next ==
    \/ \E symbols \in SymbolArgs : FetchQuotes(symbols)
    \/ \E symbols \in SymbolArgs : FetchHistorical(symbols)
    \/ FetchForexRates
    \/ \E options \in ConfigOptions : Configure(options)
    \/ ClearCache
    \/ Reload
    \/ \E r \in Answers : ApiRespond(r)
    \/ SleepWake
    \/ BackoffWake
    \/ \E r \in ProxyResponses : ProxyRespond(r)
    \/ \E d \in Deltas : Tick(d)
    \/ \E symbols \in SymbolArgs : FetchQuotesAuto(symbols)
    \/ \E r \in PingResponses : PingRespond(r)
    \/ \E q \in Pending : \E r \in AnswersTo(q) : FetchRespond(q, r)
    \/ ConfigureAuto(0)
    \/ ClearCacheAuto
    \/ ReloadAuto

Spec == Init /\ [][Next]_vars

\* what the code makes sure of by itself: a timer that was set fires (_sleep,
\* l.743-745), and a request of the auto-detecting client ends, in the abort of
\* _fetchWithTimeout at the latest (src/market-data.js, l.286-297).  The
\* requests of the Twelve Data module are plain fetch(url) calls (l.678, l.762):
\* they end only when the other side answers.
Fairness ==
    /\ WF_vars(SleepWake)
    /\ WF_vars(BackoffWake)
    /\ WF_vars(\E r \in PingResponses : PingRespond(r))
    /\ WF_vars(\E q \in Pending : \E r \in AnswersTo(q) : FetchRespond(q, r))

SpecLive == Spec /\ Fairness

(* ---------------------------------------------------------------------- *)
(* The auto-detecting client on its own, asked for two tickers at once     *)
(* ---------------------------------------------------------------------- *)
\* the symbol lists of the calls: tickers, a ticker and a TASE number
RelayArgs ==
    {[null |-> FALSE, list |-> l] :
        l \in {<<"aapl", "msft">>, <<"aapl", "msft", "goog">>, <<"msft", "512345">>,
               <<"512345">>}}

InitRelay == Init /\ impl = "autodetect"

NextRelay ==
    \/ \E symbols \in RelayArgs : FetchQuotesAuto(symbols)
    \/ \E r \in PingResponses : PingRespond(r)
    \/ \E q \in Pending : \E r \in AnswersTo(q) : FetchRespond(q, r)
    \/ \E d \in Deltas : Tick(d)

SpecRelay == InitRelay /\ [][NextRelay]_vars

(* ---------------------------------------------------------------------- *)
(* getCached and its caller: the caller keeps the object that getCached    *)
(* returned and writes to it.  An object is given with its fields and with *)
(* whether it is the cache's own entry object (shared).                    *)
(* ---------------------------------------------------------------------- *)
\* var entry = c: the entry object of the cache itself
SameObject(c) == [shared |-> TRUE, fields |-> c]

\* getCached, l.932: Object.assign({}, c), a new object with the fields of c
ObjectAssign(c) == [shared |-> FALSE, fields |-> c]

\* getCached(symbol), l.929-935, as an operation
GetCached(symbol) ==
    /\ TwelveData
    /\ CanStart(1)
    /\ left' = left - 1
    /\ LET s == ToUpperCase(symbol)
       IN  IF s \notin DOMAIN _cache
           THEN /\ _cache' = _cache
                /\ ret' = [NoCall EXCEPT !.op = "getCached", !.args = <<symbol>>,
                                         !.value = JSNull]
           ELSE LET entry == ObjectAssign(_cache[s])
                IN  \* delete entry._ts
                    /\ _cache' = IF entry.shared
                                 THEN [_cache EXCEPT ![s] = StripTs(@)] ELSE _cache
                    /\ ret' = [NoCall EXCEPT !.op = "getCached", !.args = <<symbol>>,
                                             !.value = [entry EXCEPT !.fields = StripTs(@)],
                                             !.same = (_cache' = _cache)]
    /\ UNCHANGED <<impl, now, _historicalCache, _forexCache, _cacheTTL, _apiKey,
                   _exchangeMap, _onProgress, _callTimestamps, _serverBase, _serverProbed,
                   localStorage, task, dispatched, configuredKey>>

\* the caller assigns v to the price of the object it got from getCached
WriteReturned(v) ==
    /\ CanStart(1)
    /\ ret.op = "getCached"
    /\ ret.value # JSNull
    /\ ret.value.fields.price # v
    /\ left' = left - 1
    /\ _cache' = IF ret.value.shared
                 THEN [_cache EXCEPT ![ToUpperCase(ret.args[1])].price = v] ELSE _cache
    /\ ret' = [ret EXCEPT !.status = "modified", !.value.fields.price = v]
    /\ UNCHANGED <<impl, now, _historicalCache, _forexCache, _cacheTTL, _apiKey,
                   _exchangeMap, _onProgress, _callTimestamps, _serverBase, _serverProbed,
                   localStorage, task, dispatched, configuredKey>>

\* the calls of the page: one symbol at a time
CachedArgs == {[null |-> FALSE, list |-> <<sym>>] : sym \in InputSymbols}

InitCached == Init /\ impl = "twelvedata"

NextCached ==
    \/ \E symbols \in CachedArgs : FetchQuotes(symbols)
    \/ \E r \in Answers : ApiRespond(r)
    \/ BackoffWake
    \/ \E r \in ProxyResponses : ProxyRespond(r)
    \/ \E symbol \in InputSymbols \cup {"AAPL", "msft"} : GetCached(symbol)
    \/ \E v \in {0, 99900} : WriteReturned(v)

SpecCached == InitCached /\ [][NextCached]_vars

(* ---------------------------------------------------------------------- *)
(* The rate limiter on its own: callers that invoke _apiCall one after     *)
(* another, each awaiting the call before the next one starts              *)
(* ---------------------------------------------------------------------- *)
\* _apiCall(url), l.751-760: up to the first await
_apiCall ==
    ApiEnter([Machine EXCEPT !.task = [NewTask("_apiCall", <<>>, <<>>, <<>>, ModuleState)
                                          EXCEPT !.cur = "url"]])

ApiCall ==
    /\ TwelveData
    /\ CanStart(1)
    /\ left' = left - 1
    /\ Commit(_apiCall)
    /\ UNCHANGED <<impl, _cacheTTL, _apiKey, _onProgress, configuredKey>>

InitApi ==
    /\ impl = "twelvedata"
    /\ _serverBase = NoServer
    /\ _serverProbed = FALSE
    /\ now = 0
    /\ left = MaxApiEffort
    /\ localStorage = [k \in StorageKeys |-> IF k = STORAGE_KEY THEN <<"K1">> ELSE <<>>]
    /\ _cache = EmptyMap
    /\ _historicalCache = _loadHistoricalCache(localStorage)
    /\ _forexCache = _loadForexCache(localStorage)
    /\ _cacheTTL = DefaultCacheTTL
    /\ _apiKey = LoadApiKey(localStorage)
    /\ _exchangeMap = _loadExchangeMap(localStorage)
    /\ _onProgress = FALSE
    /\ _callTimestamps = <<>>
    /\ task = Idle
    /\ ret = NoCall
    /\ dispatched = <<>>
    /\ configuredKey = <<>>

DirectRespond(r) == Respond(r, ApiEventCost)

DirectTick(d) == Elapse(d, ApiEventCost)

NextApi ==
    \/ ApiCall
    \/ \E r \in Answers : DirectRespond(r)
    \/ SleepWake
    \/ BackoffWake
    \/ \E d \in Deltas : DirectTick(d)

SpecApi == InitApi /\ [][NextApi]_vars

(* ---------------------------------------------------------------------- *)
(* Overlapping _apiCall invocations: two callers that do not await each    *)
(* other.  Each runs _apiCall as above; between two awaits of one caller   *)
(* the other caller may run.  task holds the position of each caller.      *)
(* ---------------------------------------------------------------------- *)
Callers == {1, 2}

\* the machine as caller c sees it
CallerMachine(c) == [Machine EXCEPT !.task = task.callers[c]]

\* the step of caller c has led to machine m
CallerCommit(c, m) ==
    /\ Commit([m EXCEPT !.task = [task EXCEPT !.callers[c] = m.task]])
    /\ UNCHANGED <<impl, _cacheTTL, _apiKey, _onProgress, configuredKey>>

\* caller c invokes _apiCall(url), l.751-760: up to its first await
OverlapCall(c) ==
    /\ task.callers[c] = Idle
    /\ left >= 1
    /\ left' = left - 1
    /\ CallerCommit(c, ApiEnter([Machine EXCEPT
                                    !.task = [NewTask("_apiCall", <<>>, <<>>, <<>>, ModuleState)
                                                 EXCEPT !.cur = "url"]]))

\* the proactive pause of caller c is over, l.757-759
OverlapSleepWake(c) ==
    /\ task.callers[c] # Idle
    /\ task.callers[c].pc = "sleep"
    /\ UNCHANGED left
    /\ CallerCommit(c, ApiDispatch(Wake(CallerMachine(c))))

\* the request of caller c is answered, l.762-770
OverlapRespond(c, r) ==
    /\ task.callers[c] # Idle
    /\ task.callers[c].pc = "fetch"
    /\ RateLimited(r) => left >= ApiEventCost
    /\ left' = IF RateLimited(r) THEN left - ApiEventCost ELSE left
    /\ CallerCommit(c, ApiAnswer(CallerMachine(c), r))

\* the pause of caller c after a 429 answer is over, l.767-768
OverlapBackoffWake(c) ==
    /\ task.callers[c] # Idle
    /\ task.callers[c].pc = "backoff"
    /\ UNCHANGED left
    /\ CallerCommit(c, ApiRetry(Wake(CallerMachine(c))))

\* a second passes while no call is under way
OverlapTick ==
    /\ \A c \in Callers : task.callers[c] = Idle
    /\ left >= 1
    /\ left' = left - 1
    /\ now' = now + 1000
    /\ UNCHANGED <<impl, _cache, _historicalCache, _forexCache, _cacheTTL, _apiKey,
                   _exchangeMap, _onProgress, _callTimestamps, _serverBase, _serverProbed,
                   localStorage, task, ret, dispatched, configuredKey>>

InitOverlap ==
    /\ impl = "overlap"
    /\ _serverBase = NoServer
    /\ _serverProbed = FALSE
    /\ now = 0
    /\ left = MaxApiEffort
    /\ localStorage = [k \in StorageKeys |-> IF k = STORAGE_KEY THEN <<"K1">> ELSE <<>>]
    /\ _cache = EmptyMap
    /\ _historicalCache = _loadHistoricalCache(localStorage)
    /\ _forexCache = _loadForexCache(localStorage)
    /\ _cacheTTL = DefaultCacheTTL
    /\ _apiKey = LoadApiKey(localStorage)
    /\ _exchangeMap = _loadExchangeMap(localStorage)
    /\ _onProgress = FALSE
    /\ _callTimestamps = <<>>
    /\ task = [op |-> "overlap", callers |-> [c \in Callers |-> Idle]]
    /\ ret = NoCall
    /\ dispatched = <<>>
    /\ configuredKey = <<>>

\* the answers of the provider in this specification: a quote, or 429
OverlapAnswers == {r \in QuoteResponses : r.kind = "json" /\ r.json.code \in {Null, 429}
                                           /\ (r.json.code = Null => r.json.close # Null)}

NextOverlap ==
    \/ \E c \in Callers : OverlapCall(c)
    \/ \E c \in Callers : OverlapSleepWake(c)
    \/ \E c \in Callers : \E r \in OverlapAnswers : OverlapRespond(c, r)
    \/ \E c \in Callers : OverlapBackoffWake(c)
    \/ OverlapTick

SpecOverlap == InitOverlap /\ [][NextOverlap]_vars

(* ---------------------------------------------------------------------- *)
(* Overlapping fetchQuotes calls of the auto-detecting client: the page    *)
(* starts a second call while the first one is awaiting                    *)
(* ---------------------------------------------------------------------- *)
\* the symbol lists of the two calls
ProbeArgs == {[null |-> FALSE, list |-> <<sym>>] : sym \in InputSymbols}

\* caller c invokes fetchQuotes(symbols), l.362-366: up to its first await
ProbeCall(c, symbols) ==
    /\ task.callers[c] = Idle
    /\ left >= 1
    /\ left' = left - 1
    /\ CallerCommit(c, fetchQuotesAuto(symbols))

\* a probe of caller c is answered, l.311-334
ProbePing(c, r) ==
    /\ task.callers[c] # Idle
    /\ task.callers[c].pc = "ping"
    /\ UNCHANGED left
    /\ CallerCommit(c, AD_AfterPing(CallerMachine(c), r))

\* the answers to request q of caller c: a failed fetch, or a body
ProbeAnswers(c, q) ==
    {[kind |-> "null"]} \cup
    CASE q = YahooBatch ->
           {[kind |-> "json", json |-> [s \in Range(task.callers[c].yahoo) |->
                                          Chart("meta", "USD", 18550, 18400)]]}
      [] q = TaseBatch ->
           {[kind |-> "json", json |-> [s \in Range(task.callers[c].tase) |->
                                          [shape |-> "object", price |-> 1523000]]]}
      [] q.ep = "proxy:chart" -> {[kind |-> "json", json |-> Chart("meta", "USD", 18550, 18400)]}
      [] q.ep = "proxy:securitydata" -> {[kind |-> "json", json |-> [LastRate |-> 1523000]]}
      [] OTHER -> {[kind |-> "json", json |-> [UnitValuePrice |-> Null]]}

\* the requests of caller c that are in flight
ProbePending(c) ==
    IF task.callers[c] # Idle /\ task.callers[c].pc = "requests"
    THEN task.callers[c].pending ELSE {}

\* one of the requests of caller c is answered
ProbeRespond(c, q, r) ==
    /\ q \in ProbePending(c)
    /\ UNCHANGED left
    /\ CallerCommit(c, AD_AfterAnswer(CallerMachine(c), q, r))

InitProbe ==
    /\ impl = "probe"
    /\ _serverBase = NoServer
    /\ _serverProbed = FALSE
    /\ now = 0
    /\ left = MaxEffort
    /\ localStorage = [k \in StorageKeys |-> <<>>]
    /\ _cache = EmptyMap
    /\ _historicalCache = EmptyMap
    /\ _forexCache = EmptyMap
    /\ _cacheTTL = DefaultCacheTTL
    /\ _apiKey = ""
    /\ _exchangeMap = EmptyMap
    /\ _onProgress = FALSE
    /\ _callTimestamps = <<>>
    /\ task = [op |-> "overlap", callers |-> [c \in Callers |-> Idle]]
    /\ ret = NoCall
    /\ dispatched = <<>>
    /\ configuredKey = <<>>

NextProbe ==
    \/ \E c \in Callers : \E symbols \in ProbeArgs : ProbeCall(c, symbols)
    \/ \E c \in Callers : \E r \in PingResponses : ProbePing(c, r)
    \/ \E c \in Callers : \E q \in ProbePending(c) : \E r \in ProbeAnswers(c, q) :
           ProbeRespond(c, q, r)

SpecProbe == InitProbe /\ [][NextProbe]_vars

(* ---------------------------------------------------------------------- *)
(* The payload parsers on their own: every payload shape goes through each *)
(* parser, and the outcome is recorded like the outcome of a call.         *)
(* ---------------------------------------------------------------------- *)
\* the chart bodies a parser can be given: every shape, and for a result[0]
\* with meta every combination of currency, price and previous close (a body
\* that is not an object has no chart and is of shape "nochart")
ChartPayloads ==
    {Chart(shape, "", Null, Null) : shape \in ChartShapes \ {"meta"}}
    \cup {Chart("meta", c, price, prevClose) :
             c \in {"", "USD", "ILA"}, price \in {Null, 0, 18550, 2765000},
             prevClose \in {Null, 0, 18400, 2700000}}

\* the items of a TASE batch answer: null, or an object with or without a price
TaseItems ==
    {[shape |-> "null", price |-> Null]}
    \cup {[shape |-> "object", price |-> price] : price \in {Null, 0, 1523000, 2765000}}

\* _fetchYahooSingle, part_000 l.151-169: what it makes of the body json that
\* _proxiedFetch returned; the code is that of _parseYahooChart
_fetchYahooSingle(json) == _parseYahooChart(json)

\* the bodies of the TASE fund endpoint: null, or an object with or without a
\* unit price
FundPayloads ==
    {[shape |-> "null", UnitValuePrice |-> Null]}
    \cup {[shape |-> "object", UnitValuePrice |-> price] :
             price \in {Null, 0, 1523000, 2765000}}

\* _fetchTASESingle, part_000 l.178-189: what it makes of the body data
_fetchTASESingle(data) ==
    IF data.shape = "null" \/ data.UnitValuePrice = Null
    THEN Returned(<<>>)
    ELSE Returned(<< [price |-> Div100(data.UnitValuePrice), previousClose |-> Null,
                      currency |-> "ILS"] >>)

\* the record of a parser call: the payload, whether it threw, what it returned
Parsed(op, payload, out) ==
    [NoCall EXCEPT !.op = op,
                   !.args = payload,
                   !.status = IF out.threw THEN "threw" ELSE "ok",
                   !.err = IF out.threw THEN "TypeError" ELSE "",
                   !.value = IF out.quote = <<>> THEN JSNull ELSE out.quote[1]]

\* a parser call changes no module state
Parse(op, payload, out) ==
    /\ ret' = Parsed(op, payload, out)
    /\ UNCHANGED <<impl, now, left, _cache, _historicalCache, _forexCache, _cacheTTL,
                   _apiKey, _exchangeMap, _onProgress, _callTimestamps, _serverBase,
                   _serverProbed, localStorage, task, dispatched, configuredKey>>

ParseYahooChart(json) == Parse("_parseYahooChart", json, _parseYahooChart(json))

ParseTASEResult(data) == Parse("_parseTASEResult", data, _parseTASEResult(data))

FetchYahooSingle(json) == Parse("_fetchYahooSingle", json, _fetchYahooSingle(json))

FetchTASESingle(data) == Parse("_fetchTASESingle", data, _fetchTASESingle(data))

\* the usable /quote answers of Twelve Data (symbol and close present), in any currency
UsableQuotes ==
    {[code |-> Null, invalidKeyMsg |-> FALSE, symbol |-> TRUE, close |-> close,
      previous_close |-> prev, currency |-> c] :
        close \in {27621, 2765000}, prev \in {Null, 2700000}, c \in {"", "USD", "ILA"}}

\* _fetchQuoteWithFallback, l.804-815: the quote it returns for the usable answer q
QuoteOfAnswer(q) == Parse("_fetchQuoteWithFallback", q, Returned(<<QuoteOf(q)>>))

InitParse ==
    /\ impl = "parsers"
    /\ _serverBase = NoServer
    /\ _serverProbed = FALSE
    /\ now = 0
    /\ left = 0
    /\ localStorage = [k \in StorageKeys |-> <<>>]
    /\ _cache = EmptyMap
    /\ _historicalCache = EmptyMap
    /\ _forexCache = EmptyMap
    /\ _cacheTTL = DefaultCacheTTL
    /\ _apiKey = ""
    /\ _exchangeMap = EmptyMap
    /\ _onProgress = FALSE
    /\ _callTimestamps = <<>>
    /\ task = Idle
    /\ ret = NoCall
    /\ dispatched = <<>>
    /\ configuredKey = <<>>

NextParse ==
    \/ \E json \in ChartPayloads : ParseYahooChart(json)
    \/ \E data \in TaseItems : ParseTASEResult(data)
    \/ \E json \in ChartPayloads : FetchYahooSingle(json)
    \/ \E data \in FundPayloads : FetchTASESingle(data)
    \/ \E q \in UsableQuotes : QuoteOfAnswer(q)

SpecParse == InitParse /\ [][NextParse]_vars

(* ---------------------------------------------------------------------- *)
(* The sequential client (src/unnamed/part_000): one symbol after another  *)
(* through the CORS proxy, each request tried up to three times.           *)
(* ---------------------------------------------------------------------- *)
\* _proxiedFetch, part_000 l.46: the retries after the first attempt
SeqRetries == 2

\* what one attempt of _proxiedFetch ends in for symbol sym: a failure (rejected
\* fetch, non-OK status, proxied status >= 400, a body that is not JSON), or the
\* parsed body
SeqResponses(sym) ==
    {[kind |-> "fail"]} \cup
    IF _isIsraeliSecurity(sym)
    THEN {[kind |-> "json", json |-> d] :
             d \in {[shape |-> "object", UnitValuePrice |-> v] : v \in {Null, 2765000}}}
    ELSE {[kind |-> "json", json |-> c] : c \in YahooCharts}

\* the locals of a fetchQuotes call that starts
SeqTask(args, pre) ==
    [op |-> "fetchQuotes", args |-> args, pc |-> "fetch", upper |-> <<>>, stale |-> <<>>,
     queue |-> <<>>, i |-> 1, attempt |-> 0, wakeAt |-> 0, fetched |-> EmptyMap,
     requested |-> {}, blocked |-> {}, seen |-> {}, fresh |-> EmptyMap, pre |-> pre]

\* fetchQuotes, part_000 l.118-140: merge, mark what is missing, build the result
SQ_Finish(m) ==
    LET fetched == m.task.fetched
        merged == [s \in (DOMAIN m.cache) \cup (DOMAIN fetched) |->
                      IF s \in DOMAIN fetched
                      THEN [price |-> fetched[s].price,
                            previousClose |-> fetched[s].previousClose,
                            currency |-> fetched[s].currency, _ts |-> m.now]
                      ELSE m.cache[s]]
        cache2 == MarkMissing(merged, m.task.stale, m.now)
        m2 == [m EXCEPT !.cache = cache2]
    IN  [m2 EXCEPT !.ret = Done(m2, "ok", "", QuoteResult(cache2, m.task.upper)),
                   !.task = Idle]

\* _proxiedFetch, part_000 l.49-54: the request of the given attempt for queue[i]
SQ_Attempt(m, i, attempt) ==
    [m EXCEPT !.task.i = i, !.task.attempt = attempt, !.task.pc = "fetch",
              !.task.requested = @ \cup {<<m.task.queue[i], "allorigins">>}]

\* fetchQuotes, part_000 l.104-116: the loops go on to the next symbol or end
SQ_Next(m) ==
    IF m.task.i < Len(m.task.queue) THEN SQ_Attempt(m, m.task.i + 1, 0) ELSE SQ_Finish(m)

\* _proxiedFetch, part_000 l.54-71, then _fetchYahooSingle / _fetchTASESingle and
\* fetchQuotes l.106-108, l.113-115: the attempt ended in r; an error thrown by
\* the parser is caught nowhere and rejects fetchQuotes
SQ_AfterFetch(m, r) ==
    LET sym == m.task.queue[m.task.i]
        out == IF _isIsraeliSecurity(sym)
               THEN _fetchTASESingle(r.json)
               ELSE _fetchYahooSingle(r.json)
    IN  IF r.kind = "fail"
        THEN IF m.task.attempt < SeqRetries
             THEN [m EXCEPT !.task.pc = "pause",
                            !.task.wakeAt = m.now + 1000 * (m.task.attempt + 1)]
             ELSE SQ_Next(m)
        ELSE IF out.threw
        THEN [m EXCEPT !.ret = Done(m, "rejected", "TypeError", EmptyMap), !.task = Idle]
        ELSE SQ_Next([m EXCEPT !.task.fetched = Fetched(@, sym, out.quote)])

\* fetchQuotes, part_000 l.80-104: up to the first await
fetchQuotesSeq(symbols) ==
    LET m == [Machine EXCEPT !.task = SeqTask(symbols, ModuleState)]
        upper == Upper(symbols.list)
        stale == SelectSeq(upper, LAMBDA s : IsStale(_cache, _cacheTTL, now, s))
        m1 == [m EXCEPT !.task.upper = upper,
                        !.task.stale = stale,
                        !.task.queue = SelectSeq(stale, LAMBDA s : ~_isIsraeliSecurity(s))
                                       \o SelectSeq(stale, _isIsraeliSecurity),
                        !.task.fresh = WithinTTL(upper)]
    IN  IF IsEmptyArg(symbols)
        THEN [m EXCEPT !.ret = Done(m, "ok", "", EmptyMap), !.task = Idle]
        ELSE IF Len(stale) = 0 THEN SQ_Finish(m1) ELSE SQ_Attempt(m1, 1, 0)

FetchQuotesSeq(symbols) ==
    /\ CanStart(1 + Len(symbols.list))
    /\ left' = left - (1 + Len(symbols.list))
    /\ Commit(fetchQuotesSeq(symbols))
    /\ UNCHANGED <<impl, _cacheTTL, _apiKey, _onProgress, configuredKey>>

\* the attempt in flight ends
SeqRespond(r) ==
    /\ InFlight
    /\ task.pc = "fetch"
    /\ r \in SeqResponses(task.queue[task.i])
    /\ Commit(SQ_AfterFetch(Machine, r))
    /\ UNCHANGED <<impl, left, _cacheTTL, _apiKey, _onProgress, configuredKey>>

\* the pause before a retry is over, part_000 l.51-53
SeqWake ==
    /\ InFlight
    /\ task.pc = "pause"
    /\ Commit(SQ_Attempt([Machine EXCEPT !.now = task.wakeAt], task.i, task.attempt + 1))
    /\ UNCHANGED <<impl, left, _cacheTTL, _apiKey, _onProgress, configuredKey>>

InitSeq ==
    /\ impl = "sequential"
    /\ _serverBase = NoServer
    /\ _serverProbed = FALSE
    /\ now = 0
    /\ left = MaxEffort
    /\ localStorage = [k \in StorageKeys |-> <<>>]
    /\ _cache = EmptyMap
    /\ _historicalCache = EmptyMap
    /\ _forexCache = EmptyMap
    /\ _cacheTTL = DefaultCacheTTL
    /\ _apiKey = ""
    /\ _exchangeMap = EmptyMap
    /\ _onProgress = FALSE
    /\ _callTimestamps = <<>>
    /\ task = Idle
    /\ ret = NoCall
    /\ dispatched = <<>>
    /\ configuredKey = <<>>

NextSeq ==
    \/ \E symbols \in SymbolArgs : FetchQuotesSeq(symbols)
    \/ \E r \in UNION {SeqResponses(sym) : sym \in Symbols} : SeqRespond(r)
    \/ SeqWake
    \/ \E d \in Deltas : Tick(d)

SpecSeq == InitSeq /\ [][NextSeq]_vars

(* ---------------------------------------------------------------------- *)
(* _proxiedFetch of the sequential client on its own (part_000 l.45-72;    *)
(* the same code in src/market-data.js l.33-64): one target URL, the       *)
(* answers of the proxy in full.                                           *)
(* ---------------------------------------------------------------------- *)
\* what the proxy's contents field holds: a JSON text or an HTML page
ProxyContents == {"{\"a\":1}", "<html>"}

\* JSON.parse of a contents field
JSONParse(text) ==
    IF text = "<html>" THEN [threw |-> TRUE, value |-> JSNull]
    ELSE [threw |-> FALSE, value |-> [a |-> 1]]

\* the bodies of an answer as resp.json() sees them: not JSON, the JSON null, an
\* object without a contents field, the allorigins wrapper (status.http_code
\* absent, 200 or 404)
ProxyBodies ==
    {[shape |-> "notjson"], [shape |-> "null"], [shape |-> "raw"]} \cup
    {[shape |-> "wrapped", http_code |-> Null, contents |-> "{\"a\":1}"],
     [shape |-> "wrapped", http_code |-> 404, contents |-> "{\"a\":1}"]} \cup
    {[shape |-> "wrapped", http_code |-> 200, contents |-> t] : t \in ProxyContents}

\* how one attempt ends: fetch rejects, or an answer with resp.ok and a body
ProxyAnswers ==
    {[kind |-> "rejected"], [kind |-> "answer", ok |-> FALSE, body |-> [shape |-> "notjson"]]}
    \cup {[kind |-> "answer", ok |-> TRUE, body |-> b] : b \in ProxyBodies}

\* the calls and clock steps of one behaviour
MaxProxyEffort == 2

\* the calls: the target URL, retries left out or passed
ProxyArgs == {[url |-> "chart", retries |-> r] : r \in {<<>>, <<0>>, <<1>>}}

\* part_000 l.46: retries defaults to 2
Retries(args) == IF args.retries = <<>> THEN SeqRetries ELSE args.retries[1]

\* a variant of the pause that does not wait
ProxyNoPause(attempt) == 0

\* part_000 l.51: the pause before attempt number attempt
ProxyPause(attempt) == 1000 * attempt

\* the locals of a _proxiedFetch call that starts
ProxyTask(args, pre) ==
    [op |-> "_proxiedFetch", args |-> args, pc |-> "fetch", attempt |-> 0, wakeAt |-> 0,
     sentAt |-> <<>>, requested |-> {}, blocked |-> {}, seen |-> {}, fresh |-> EmptyMap,
     pre |-> pre]

\* part_000 l.54: the request of the given attempt
PF_Attempt(m, attempt) ==
    [m EXCEPT !.task.attempt = attempt, !.task.pc = "fetch",
              !.task.sentAt = Append(@, m.now),
              !.task.requested = @ \cup {<<m.task.args.url, "allorigins">>}]

\* part_000 l.62, l.65, l.71: the call resolves
PF_Return(m, value) ==
    [m EXCEPT !.ret = Done(m, "ok", "", value), !.task = Idle]

\* part_000 l.49-53, l.71: continue, or the catch block, ends the iteration
PF_Continue(m) ==
    IF m.task.attempt < Retries(m.task.args)
    THEN [m EXCEPT !.task.pc = "pause",
                   !.task.wakeAt = m.now + ProxyPause(m.task.attempt + 1)]
    ELSE PF_Return(m, JSNull)

\* part_000 l.54-68: the attempt ended in r
PF_AfterFetch(m, r) ==
    LET m1 == [m EXCEPT !.task.seen = @ \cup {<<m.task.attempt, r>>}]
        b == r.body
        parsed == JSONParse(b.contents)
    IN  IF r.kind = "rejected" \/ ~r.ok \/ b.shape = "notjson" THEN PF_Continue(m1)
        ELSE IF b.shape = "null" THEN PF_Return(m1, JSNull)
        ELSE IF b.shape = "raw" THEN PF_Return(m1, [raw |-> TRUE])
        ELSE IF b.http_code # Null /\ b.http_code # 0 /\ b.http_code >= 400
        THEN PF_Continue(m1)
        ELSE IF parsed.threw THEN PF_Continue(m1)
        ELSE PF_Return(m1, parsed.value)

ProxiedFetch(args) ==
    /\ CanStart(1)
    /\ left' = left - 1
    /\ Commit(PF_Attempt([Machine EXCEPT !.task = ProxyTask(args, ModuleState)], 0))
    /\ UNCHANGED <<impl, _cacheTTL, _apiKey, _onProgress, configuredKey>>

\* the attempt in flight ends
ProxiedRespond(r) ==
    /\ InFlight
    /\ task.pc = "fetch"
    /\ Commit(PF_AfterFetch(Machine, r))
    /\ UNCHANGED <<impl, left, _cacheTTL, _apiKey, _onProgress, configuredKey>>

\* the pause before a retry is over, part_000 l.51-53
ProxyWake ==
    /\ InFlight
    /\ task.pc = "pause"
    /\ Commit(PF_Attempt([Machine EXCEPT !.now = task.wakeAt], task.attempt + 1))
    /\ UNCHANGED <<impl, left, _cacheTTL, _apiKey, _onProgress, configuredKey>>

InitProxy ==
    /\ impl = "proxied"
    /\ _serverBase = NoServer
    /\ _serverProbed = FALSE
    /\ now = 0
    /\ left = MaxProxyEffort
    /\ localStorage = [k \in StorageKeys |-> <<>>]
    /\ _cache = EmptyMap
    /\ _historicalCache = EmptyMap
    /\ _forexCache = EmptyMap
    /\ _cacheTTL = DefaultCacheTTL
    /\ _apiKey = ""
    /\ _exchangeMap = EmptyMap
    /\ _onProgress = FALSE
    /\ _callTimestamps = <<>>
    /\ task = Idle
    /\ ret = NoCall
    /\ dispatched = <<>>
    /\ configuredKey = <<>>

NextProxy ==
    \/ \E args \in ProxyArgs : ProxiedFetch(args)
    \/ \E r \in ProxyAnswers : ProxiedRespond(r)
    \/ ProxyWake
    \/ \E d \in Deltas : Tick(d)

SpecProxy == InitProxy /\ [][NextProxy]_vars

(* ---------------------------------------------------------------------- *)
(* The two ways a TASE id is resolved against the security and the fund    *)
(* endpoint: one after the other in the relay server's /api/tase/quote     *)
(* handler (src/server.js, l.239-312), both at once in the client          *)
(* (src/unnamed/part_003, l.238-276).                                      *)
(* ---------------------------------------------------------------------- *)
\* httpsGetWithRetry, l.156-199: the attempts made for one URL
ServerAttempts == 3

\* the next attempt follows at once
RetryImmediately(attempt) == 0

\* the request headers of an attempt, l.159, l.174, l.188
HeaderProfile(attempt) == IF attempt = 2 THEN "legacy" ELSE "primary"

\* the pause before attempt 2 and before attempt 3, l.173, l.187
RetryDelay(attempt) == IF attempt = 1 THEN 500 ELSE 2000

\* what one httpsGet ends in: an error, a status other than 200 or a body that
\* does not start with '{' (all "fail"), a body that starts with '{' and is not
\* JSON, or a JSON object
EndpointAnswers(endpoint) ==
    {[kind |-> "fail"], [kind |-> "badjson"]} \cup
    IF endpoint = "security"
    THEN {[kind |-> "json", json |-> [LastRate |-> v]] : v \in {Null, 0, 1523000}}
    ELSE {[kind |-> "json", json |-> [UnitValuePrice |-> v]] : v \in {Null, 2765000}}

\* the handler of /api/tase/quote starts for id, l.239-241
ServerTask(id) ==
    [op |-> "/api/tase/quote", args |-> id, pc |-> "security", attempt |-> 1,
     headers |-> HeaderProfile(1), requested |-> {}]

\* httpsGet, l.159, l.174, l.188: the request of the given attempt
TQ_Attempt(m, endpoint, attempt) ==
    [m EXCEPT !.task.pc = endpoint, !.task.attempt = attempt,
              !.task.headers = HeaderProfile(attempt),
              !.task.requested = @ \cup {<<m.task.args, endpoint>>}]

\* sendJson, l.201-204: the handler answers and returns
TQ_Send(m, status, body) ==
    [m EXCEPT !.ret = [NoCall EXCEPT !.op = m.task.op, !.args = m.task.args,
                                     !.status = status, !.value = body,
                                     !.requested = m.task.requested],
              !.task = Idle]

\* the handler, l.251-308, with what httpsGetWithRetry returned for the
\* endpoint it was asking: null, or a response whose body starts with '{'
TQ_AfterRetry(m, r) ==
    IF m.task.pc = "security"
    THEN IF r.kind = "json" /\ r.json.LastRate # Null
         THEN TQ_Send(m, "200", [source |-> "tase-security", price |-> r.json.LastRate])
         ELSE TQ_Attempt(m, "fund", 1)
    ELSE IF r.kind = "json" /\ r.json.UnitValuePrice # Null
         THEN TQ_Send(m, "200", [source |-> "tase-fund", price |-> r.json.UnitValuePrice])
         ELSE TQ_Send(m, "404", [error |-> "Security not found"])

\* httpsGetWithRetry, l.156-199: an attempt ended in r
TQ_AfterGet(m, r) ==
    IF r.kind = "fail"
    THEN IF m.task.attempt < ServerAttempts
         THEN TQ_Attempt([m EXCEPT !.now = @ + RetryDelay(m.task.attempt)],
                         m.task.pc, m.task.attempt + 1)
         ELSE TQ_AfterRetry(m, r)
    ELSE TQ_AfterRetry(m, r)

\* GET /api/tase/quote?id=...
TaseQuoteGet(id) ==
    /\ CanStart(1)
    /\ left' = left - 1
    /\ Commit(TQ_Attempt([Machine EXCEPT !.task = ServerTask(id)], "security", 1))
    /\ UNCHANGED <<impl, _cacheTTL, _apiKey, _onProgress, configuredKey>>

\* the upstream request of the handler is answered
UpstreamRespond(r) ==
    /\ InFlight
    /\ r \in EndpointAnswers(task.pc)
    /\ Commit(TQ_AfterGet(Machine, r))
    /\ UNCHANGED <<impl, left, _cacheTTL, _apiKey, _onProgress, configuredKey>>

\* what _proxiedFetch hands to the client's pair rule for an endpoint: null or a body
ProxiedAnswers(endpoint) ==
    {[kind |-> "null"]} \cup {r \in EndpointAnswers(endpoint) : r.kind = "json"}

\* _fetchTASESymbols, part_003 l.249-272: both answers of one id are in
TasePair(stockData, fundData) ==
    /\ task = Idle
    /\ Parse("_fetchTASESymbols", [stockData |-> stockData, fundData |-> fundData],
             Returned(TaseQuote(stockData, fundData)))

InitTase ==
    /\ impl = "tase"
    /\ _serverBase = NoServer
    /\ _serverProbed = FALSE
    /\ now = 0
    /\ left = MaxEffort
    /\ localStorage = [k \in StorageKeys |-> <<>>]
    /\ _cache = EmptyMap
    /\ _historicalCache = EmptyMap
    /\ _forexCache = EmptyMap
    /\ _cacheTTL = DefaultCacheTTL
    /\ _apiKey = ""
    /\ _exchangeMap = EmptyMap
    /\ _onProgress = FALSE
    /\ _callTimestamps = <<>>
    /\ task = Idle
    /\ ret = NoCall
    /\ dispatched = <<>>
    /\ configuredKey = <<>>

NextTase ==
    \/ TaseQuoteGet("512345")
    \/ \E r \in EndpointAnswers("security") \cup EndpointAnswers("fund") : UpstreamRespond(r)
    \/ \E stockData \in ProxiedAnswers("security"), fundData \in ProxiedAnswers("fund") :
           TasePair(stockData, fundData)

SpecTase == InitTase /\ [][NextTase]_vars

(* ---------------------------------------------------------------------- *)
(* The Twelve Data module on a store that fails: a slot of the store may   *)
(* throw on every access (storage denied), reject writes (quota exceeded), *)
(* or hold a text that is not the JSON of an object.                       *)
(* ---------------------------------------------------------------------- *)
Denied == <<"throws", "SecurityError">>
Full == <<"throws", "QuotaExceededError">>
\* the stored texts 'null' and '{' (not JSON)
NullText == [text |-> "null"]
CorruptText == [text |-> "{"]

\* localStorage.getItem(k), setItem(k, v), removeItem(k) throw
GetThrows(ls, k) == ls[k] = Denied
SetThrows(ls, k) == ls[k] \in {Denied, Full}
RemoveThrows(ls, k) == ls[k] = Denied

\* the value is null where an object is expected
IsNullMap(c) == "jsnull" \in DOMAIN c

\* _loadExchangeMap, _loadHistoricalCache, _loadForexCache, l.468-503: the parsed
\* text of slot k, {} when there is none or when getItem or JSON.parse throws
LoadFromStore(ls, k) ==
    IF ls[k] \in {Denied, Full, <<>>} THEN EmptyMap
    ELSE IF "text" \notin DOMAIN ls[k][1] THEN JSONparse(ls[k][1])
    ELSE IF ls[k][1] = NullText THEN JSNull
    ELSE EmptyMap

\* module initialisation, l.447-459, against the store ls: getItem of l.453 is
\* called outside any try
Initialise(ls) ==
    [threw |-> GetThrows(ls, STORAGE_KEY),
     hist |-> LoadFromStore(ls, HISTORICAL_CACHE_KEY),
     forex |-> LoadFromStore(ls, FOREX_CACHE_KEY),
     key |-> IF ls[STORAGE_KEY] \in {Denied, Full} THEN "" ELSE LoadApiKey(ls),
     exmap |-> IF GetThrows(ls, STORAGE_KEY) THEN EmptyMap
               ELSE LoadFromStore(ls, EXCHANGE_MAP_KEY)]

\* the module exists: its initialisation did not throw
Usable == ~(ret.op = "initialise" /\ ret.status = "threw")

\* the page is loaded (again)
StoreLoad ==
    /\ CanStart(1)
    /\ left' = left - 1
    /\ LET mod == Initialise(localStorage)
       IN  /\ _cache' = EmptyMap
           /\ _historicalCache' = mod.hist
           /\ _forexCache' = mod.forex
           /\ _apiKey' = mod.key
           /\ _exchangeMap' = mod.exmap
           /\ ret' = [NoCall EXCEPT !.op = "initialise",
                                    !.status = IF mod.threw THEN "threw" ELSE "ok",
                                    !.err = IF mod.threw THEN "SecurityError" ELSE ""]
    /\ _cacheTTL' = DefaultCacheTTL
    /\ _onProgress' = FALSE
    /\ _callTimestamps' = <<>>
    /\ UNCHANGED <<impl, now, _serverBase, _serverProbed, localStorage, task, dispatched,
                   configuredKey>>

\* configure, l.519-526, on a store whose setItem may throw
StoreConfigure(options) ==
    LET threw == options.apiKey # <<>> /\ SetThrows(localStorage, STORAGE_KEY)
    IN  /\ Usable
        /\ CanStart(1)
        /\ left' = left - 1
        /\ _cacheTTL' = IF options.cacheTTL # <<>> THEN options.cacheTTL[1] ELSE _cacheTTL
        /\ _apiKey' = IF options.apiKey # <<>> THEN options.apiKey[1] ELSE _apiKey
        /\ localStorage' = IF options.apiKey # <<>> /\ ~threw
                           THEN setItem(localStorage, STORAGE_KEY, options.apiKey[1])
                           ELSE localStorage
        /\ _onProgress' = IF options.onProgress # <<>> /\ ~threw
                          THEN options.onProgress[1] ELSE _onProgress
        /\ ret' = [NoCall EXCEPT !.op = "configure", !.args = <<options>>,
                                 !.status = IF threw THEN "threw" ELSE "ok",
                                 !.err = IF threw THEN localStorage[STORAGE_KEY][2] ELSE ""]
        /\ UNCHANGED <<impl, now, _cache, _historicalCache, _forexCache, _exchangeMap,
                       _callTimestamps, _serverBase, _serverProbed, task, dispatched,
                       configuredKey>>

\* for (k in map) delete map[k], l.949-960: nothing happens when map is null
Emptied(map) == IF IsNullMap(map) THEN map ELSE EmptyMap

\* localStorage.removeItem for each key in turn, l.961-963, up to the first throw
RECURSIVE RemoveAll(_, _)
RemoveAll(ls, keys) ==
    IF keys = <<>> \/ RemoveThrows(ls, keys[1]) THEN ls
    ELSE RemoveAll(IF ls[keys[1]] = Full THEN ls ELSE removeItem(ls, keys[1]), Tail(keys))

\* clearCache, l.947-964, on a store whose removeItem may throw
StoreClearCache ==
    LET keys == <<EXCHANGE_MAP_KEY, HISTORICAL_CACHE_KEY, FOREX_CACHE_KEY>>
        threw == \E i \in 1..3 : RemoveThrows(localStorage, keys[i])
    IN  /\ Usable
        /\ CanStart(1)
        /\ left' = left - 1
        /\ _cache' = EmptyMap
        /\ _historicalCache' = Emptied(_historicalCache)
        /\ _exchangeMap' = Emptied(_exchangeMap)
        /\ _forexCache' = Emptied(_forexCache)
        /\ localStorage' = RemoveAll(localStorage, keys)
        /\ ret' = [NoCall EXCEPT !.op = "clearCache",
                                 !.status = IF threw THEN "threw" ELSE "ok",
                                 !.err = IF threw THEN "SecurityError" ELSE ""]
        /\ UNCHANGED <<impl, now, _cacheTTL, _apiKey, _onProgress, _callTimestamps,
                       _serverBase, _serverProbed, task, dispatched, configuredKey>>

\* the store changes under the module: access to slot k is denied, its quota is
\* used up, or another writer left a text in it
StoreBreak(k, slot) ==
    /\ CanStart(1)
    /\ left' = left - 1
    /\ slot \in {Denied, Full} \cup (IF k = STORAGE_KEY THEN {}
                                     ELSE {<<NullText>>, <<CorruptText>>})
    /\ localStorage' = [localStorage EXCEPT ![k] = slot]
    /\ UNCHANGED <<impl, now, _cache, _historicalCache, _forexCache, _cacheTTL, _apiKey,
                   _exchangeMap, _onProgress, _callTimestamps, _serverBase, _serverProbed,
                   task, ret, dispatched, configuredKey>>

InitStore ==
    /\ impl = "twelvedata"
    /\ _serverBase = NoServer
    /\ _serverProbed = FALSE
    /\ now = 0
    /\ left = MaxEffort
    /\ localStorage = [k \in StorageKeys |-> <<>>]
    /\ _cache = EmptyMap
    /\ _historicalCache = EmptyMap
    /\ _forexCache = EmptyMap
    /\ _cacheTTL = DefaultCacheTTL
    /\ _apiKey = ""
    /\ _exchangeMap = EmptyMap
    /\ _onProgress = FALSE
    /\ _callTimestamps = <<>>
    /\ task = Idle
    /\ ret = NoCall
    /\ dispatched = <<>>
    /\ configuredKey = <<>>

NextStore ==
    \/ StoreLoad
    \/ \E options \in ConfigOptions : StoreConfigure(options)
    \/ StoreClearCache
    \/ \E k \in StorageKeys, slot \in {Denied, Full, <<NullText>>, <<CorruptText>>} :
           StoreBreak(k, slot)

SpecStore == InitStore /\ [][NextStore]_vars

(* ---------------------------------------------------------------------- *)
(* Properties                                                              *)
(* ---------------------------------------------------------------------- *)
\* the last completed call is a fetchQuotes call
QuotesReturned == ret.op = "fetchQuotes"

\* the symbols of the last fetchQuotes call that were not in the cache, or were
\* older than the TTL, as the call started
Due == Range(Upper(ret.args.list)) \ DOMAIN ret.fresh

\* the endpoints a set of requests reached for symbol s
Endpoints(requested, s) == {e[2] : e \in {x \in requested : x[1] = s}}

\* every symbol of the argument is a TASE number
AllNumeric(arg) == \A i \in DOMAIN arg.list : _isTaseNumber(ToUpperCase(arg.list[i]))

\* C1: a requested symbol whose cache entry is within the TTL as fetchQuotes
\* starts gets no upstream request in that call, neither while the call runs
\* nor by the time it completes, and the value the call returns for it is that
\* entry without _ts.
C1_FreshSymbolsServedFromCache ==
    /\ (task # Idle /\ task.op = "fetchQuotes") =>
          \A s \in DOMAIN task.fresh : Endpoints(task.requested, s) = {}
    /\ QuotesReturned =>
          \A s \in DOMAIN ret.fresh :
              /\ Endpoints(ret.requested, s) = {}
              /\ ret.status = "ok" => ret.value[s] = StripTs(ret.fresh[s])

\* a call that served one symbol from the cache and fetched another
C1_Witness ==
    /\ QuotesReturned
    /\ ret.status = "ok"
    /\ DOMAIN ret.fresh # {}
    /\ ret.requested # {}

\* C2, as stated: every symbol that is not in the cache or is older than the TTL
\* gets at least one upstream request during the call, whatever the API key.
C2_EveryStaleSymbolRequested ==
    QuotesReturned => \A s \in Due : Endpoints(ret.requested, s) # {}

\* C2, amended: a fetchQuotes call that does not reject sends at least one
\* upstream request for every symbol that is not in the cache or is older than
\* the TTL; a call that rejects with 'API key not set' sends none at all.
C2_StaleSymbolsRequestedUnlessRejected ==
    QuotesReturned =>
        IF ret.status = "rejected"
        THEN ret.err = "API key not set" /\ ret.requested = {}
        ELSE \A s \in Due : Endpoints(ret.requested, s) # {}

\* a call that fetched a stale ticker and a stale TASE number
C2_Witness ==
    /\ QuotesReturned
    /\ ret.status = "ok"
    /\ \E s \in Due : _isTaseNumber(s) /\ Endpoints(ret.requested, s) # {}
    /\ \E s \in Due : ~_isTaseNumber(s) /\ Endpoints(ret.requested, s) # {}

\* C3: fetchQuotes with an empty list or null returns the empty map, sends no
\* request and leaves the module state (caches, exchange map, rate window,
\* store) as it was.
C3_EmptyListIsANoOp ==
    (QuotesReturned /\ IsEmptyArg(ret.args)) =>
        /\ ret.status = "ok"
        /\ ret.value = EmptyMap
        /\ ret.requested = {}
        /\ ret.same

\* an empty call made when the cache and the rate window are not empty
C3_Witness ==
    /\ QuotesReturned
    /\ IsEmptyArg(ret.args)
    /\ _cache # EmptyMap
    /\ _callTimestamps # <<>>

\* C4: once configure({apiKey: X}) ran, getApiKey() is X, and the store holds X
\* so that a reload reads X back, whatever ran in between.
C4_ApiKeyRoundTrip ==
    configuredKey # <<>> =>
        /\ getApiKey = configuredKey[1]
        /\ LoadApiKey(localStorage) = configuredKey[1]

\* the module was reloaded after configure({apiKey: "K2"}) and still has the key
C4_Witness ==
    /\ configuredKey = <<"K2">>
    /\ ret.op = "reload"
    /\ getApiKey = "K2"

\* clearCache was the last operation, and no call has started since
JustCleared == ret.op = "clearCache" /\ task = Idle

\* C5: right after clearCache, a second clearCache changes nothing and getCached
\* answers null for every symbol, in both clients; in the Twelve Data client
\* getHistorical answers null for every symbol and getForexRates for every rate.
C5_ClearCacheIdempotent ==
    JustCleared =>
        /\ \A s \in InputSymbols : getCached(s) = JSNull
        /\ IF AutoDetect
           THEN clearCacheAuto(ModuleState) = ModuleState
           ELSE /\ clearCache(ModuleState) = ModuleState
                /\ \A s \in InputSymbols : getHistorical(s) = JSNull
                /\ \A k \in DOMAIN getForexRates(_forexCache) :
                      getForexRates(_forexCache)[k] = Null

\* a clearCache that removed cached data
C5_Witness ==
    /\ JustCleared
    /\ ~ret.same

\* the dispatch times of the first requests of an _apiCall and of the eighth
\* call after it
EightCallsApart == Len(dispatched) = MAX_CALLS_PER_MINUTE + 1

\* C6, as stated: the first request of the (n+8)-th call is dispatched more
\* than 60 seconds after the first request of the n-th call.
C6_MoreThanAWindowApart ==
    EightCallsApart => dispatched[Len(dispatched)] - dispatched[1] > RateWindow

\* C6, amended: a call that finds 8 calls inside the window is dispatched only
\* after the oldest of them has left the window, and the first request of the
\* (n+8)-th call is dispatched at least 60 seconds after that of the n-th call.
C6_AtLeastAWindowApart ==
    /\ (task # Idle /\ task.waited # Null) =>
          IF task.pc = "sleep"
          THEN task.wakeAt - task.waited > RateWindow
          ELSE dispatched[Len(dispatched)] - task.waited > RateWindow
    /\ EightCallsApart => dispatched[Len(dispatched)] - dispatched[1] >= RateWindow

\* the ninth call found the window full, slept and was dispatched
C6_Witness ==
    /\ EightCallsApart
    /\ task # Idle
    /\ task.waited # Null
    /\ task.pc = "fetch"

\* the quote cache holds no data for symbol s that it did not hold before
NoNewQuote(s) ==
    IF s \in DOMAIN _cache
    THEN s \in DOMAIN _cache' /\ _cache'[s] = _cache[s]
    ELSE s \notin DOMAIN _cache' \/ _cache'[s].price = Null

C8_MissingKeyRejectsWithoutEffect ==
    (TwelveData /\ QuotesReturned) =>
        /\ ret.status = "rejected" <=> (_apiKey = "" /\ \E s \in Due : ~_isTaseNumber(s))
        /\ ret.status = "rejected" =>
              /\ ret.err = "API key not set"
              /\ ret.requested = {}
              /\ ret.same

\* a rejected call made when the cache already held a quote
C8_Witness ==
    /\ TwelveData
    /\ QuotesReturned
    /\ ret.status = "rejected"
    /\ DOMAIN ret.fresh # {}
    /\ _cache # EmptyMap

\* C9: in the Twelve Data client, fetchQuotes and fetchHistorical called with
\* TASE numbers only never reject and never send a request to Twelve Data,
\* whatever the API key.
C9_NumericOnlyNeedsNoKey ==
    /\ (TwelveData /\ task # Idle /\ task.op \in {"fetchQuotes", "fetchHistorical"}
        /\ AllNumeric(task.args)) =>
          "twelvedata" \notin {e[2] : e \in task.requested}
    /\ (TwelveData /\ ret.op \in {"fetchQuotes", "fetchHistorical"} /\ AllNumeric(ret.args)) =>
          /\ ret.status = "ok"
          /\ "twelvedata" \notin {e[2] : e \in ret.requested}

\* fetchHistorical resolved for a TASE number whose quote was fetched before,
\* no key having ever been set
C9_Witness ==
    /\ TwelveData
    /\ ret.op = "fetchHistorical"
    /\ ~IsEmptyArg(ret.args)
    /\ AllNumeric(ret.args)
    /\ _apiKey = ""
    /\ configuredKey = <<>>
    /\ "512345" \in DOMAIN _cache
    /\ _cache["512345"].price # Null

\* C10, as stated: no public operation of the Twelve Data client rejects
\* because a request failed; the only rejection is the missing API key.
C10_NetworkFailureNeverRejects ==
    (TwelveData /\ ret.op \in {"fetchQuotes", "fetchHistorical", "fetchForexRates"}) =>
        (ret.status = "rejected" => ret.err = "API key not set")

\* the payload parsers
Parsers == {"_parseYahooChart", "_parseTASEResult", "_fetchYahooSingle", "_fetchTASESingle"}

\* C12, as stated: whatever the payload, the Yahoo chart parsers and the TASE
\* parsers return (null or a quote) and never throw; a payload without chart,
\* result, result[0], meta or price gives null.
C12_ParsersFailClosed ==
    ret.op \in Parsers =>
        /\ ret.status = "ok"
        /\ (ret.op \in {"_parseYahooChart", "_fetchYahooSingle"} /\ ret.args.shape # "meta") =>
              ret.value = JSNull

\* C11, as stated: a fetchQuotes call resolves whatever happens to the fetch of
\* one of its symbols (network error, non-OK status, block page, malformed
\* payload), and what it returns is what the cache holds for its symbols.
C11_OneFailureLeavesTheCallAlone ==
    QuotesReturned =>
        /\ ret.requested # {} => ret.status = "ok"
        /\ (ret.status = "ok" /\ task = Idle) =>
              ret.value = QuoteResult(_cache, Upper(ret.args.list))

\* C13, as stated: the map a fetchQuotes call returns has exactly one entry per
\* distinct requested symbol, under the upper-cased symbol, and a symbol for
\* which there is no data maps to null (never to a quote without a price).
C13_OneEntryPerSymbolNullWithoutData ==
    (QuotesReturned /\ ret.status = "ok" /\ ~IsEmptyArg(ret.args)) =>
        /\ DOMAIN ret.value = Range(Upper(ret.args.list))
        /\ \A s \in DOMAIN ret.value :
              ret.value[s] = JSNull \/ ret.value[s].price # Null

\* a fetchQuotes call of the Twelve Data module is inside _fetchQuoteWithFallback
\* for the ticker task.cur, and task.try[task.j] is the provider symbol of the
\* request it is about to send or is waiting for
AskingProvider == TwelveData /\ InFlight /\ task.op = "fetchQuotes" /\ task.try # <<>>

\* C14: while a ticker has an entry in the exchange map, the only provider symbol
\* _fetchQuoteWithFallback asks for is the resolved one: the list of symbols to try
\* holds nothing else, so no suffix variant follows an answer without data.
C14_ResolvedTickerAsksResolvedSymbolOnly ==
    (AskingProvider /\ task.cur \in DOMAIN _exchangeMap) =>
        /\ task.try = <<_exchangeMap[task.cur]>>
        /\ task.j = 1

\* a call ended that asked for AAPL when it was resolved and got no data for it
C14_Witness ==
    /\ TwelveData /\ task = Idle /\ QuotesReturned /\ ret.status = "ok"
    /\ "AAPL" \in DOMAIN _exchangeMap
    /\ <<"AAPL", "twelvedata">> \in ret.requested
    /\ ret.value["AAPL"].price = Null

\* the next step of _fetchQuoteWithFallback for the unresolved ticker S: it stays
\* with the variant (a wait or a retry), goes on to the next variant with the
\* exchange map as it was, or leaves the ticker, and then the map is as it was or
\* has gained S -> the variant just asked for, together with its stored copy and
\* a quote in the cache
FallbackStep(S) ==
    LET onS == task' # Idle /\ task'.i = task.i /\ task'.try = task.try
        won == _exchangeMap' = Put(_exchangeMap, S, task.try[task.j])
    IN  /\ task.try = <<S, Suffixed(S, 1), Suffixed(S, 2), Suffixed(S, 3)>>
        /\ \/ onS /\ task'.j \in {task.j, task.j + 1} /\ _exchangeMap' = _exchangeMap
           \/ ~onS /\ (_exchangeMap' = _exchangeMap \/ won)
        /\ IF _exchangeMap' = _exchangeMap
           THEN localStorage' = localStorage
           ELSE /\ localStorage' = _saveExchangeMap(localStorage, _exchangeMap')
                /\ _loadExchangeMap(localStorage') = _exchangeMap'
                /\ S \in DOMAIN _cache' /\ _cache'[S]._ts = now'

UsableRate(r, field) == r.kind = "json" /\ r.json[field] # Null

\* C16: when the security endpoint gave a usable last-rate the quote of a TASE id
\* is built from it, whatever the fund endpoint gave; the fund's unit price is used
\* exactly when the security endpoint gave none and the fund gave one; and the
\* /api/tase/quote handler asks the fund endpoint only after the security endpoint
\* gave no usable last-rate, so an answer from the security data was produced
\* without any request to the fund endpoint.
C16_SecurityBeforeFund ==
    /\ ret.op = "_fetchTASESymbols" =>
          LET stockData == ret.args.stockData
              fundData == ret.args.fundData
          IN  IF UsableRate(stockData, "LastRate")
              THEN ret.value = [price |-> Div100(stockData.json.LastRate),
                                previousClose |-> Null, currency |-> "ILS"]
              ELSE IF UsableRate(fundData, "UnitValuePrice")
              THEN ret.value = [price |-> Div100(fundData.json.UnitValuePrice),
                                previousClose |-> Null, currency |-> "ILS"]
              ELSE ret.value = JSNull
    /\ (ret.op = "/api/tase/quote" /\ ret.status = "200") =>
          IF ret.value.source = "tase-security"
          THEN ret.requested = {<<ret.args, "security">>}
          ELSE ret.requested = {<<ret.args, "security">>, <<ret.args, "fund">>}
    /\ (InFlight /\ task.op = "/api/tase/quote") =>
          (<<task.args, "fund">> \in task.requested <=> task.pc = "fund")

\* both endpoints had a price for the id and the pair rule took the security's
C16_Witness ==
    /\ ret.op = "_fetchTASESymbols"
    /\ UsableRate(ret.args.stockData, "LastRate")
    /\ UsableRate(ret.args.fundData, "UnitValuePrice")
    /\ ret.value # JSNull

\* the unit price the fund endpoint has for a TASE id the security endpoint does
\* not know: 15230 in minor units, 152.30
FundUnitPrice == Div100(1523000)

\* C17, as stated: in the Twelve Data module a fetchQuotes call that resolves
\* returns, for a numeric id it had to fetch, a quote with a price in ILS: the
\* security endpoint's last rate, or the fund endpoint's unit price 152.30 when
\* the security endpoint does not know the id.
C17_FundIdGetsAQuote ==
    (TwelveData /\ QuotesReturned /\ ret.status = "ok" /\ task = Idle) =>
        \A s \in Due :
            _isTaseNumber(s) =>
                /\ ret.value[s] # JSNull
                /\ ret.value[s].price \in {FundUnitPrice, Div100(2765000)}
                /\ ret.value[s].currency = "ILS"

\* the price and the previous close of the payload the last parser call was
\* given, and whether the payload is in minor units (Yahoo's 'ILA', the
\* provider's 'ILA', every TASE price)
PayloadPrice ==
    CASE ret.op \in {"_parseYahooChart", "_fetchYahooSingle"} -> ret.args.regularMarketPrice
      [] ret.op = "_parseTASEResult" -> ret.args.price
      [] ret.op = "_fetchTASESingle" -> ret.args.UnitValuePrice
      [] OTHER -> ret.args.close

PayloadPreviousClose ==
    CASE ret.op \in {"_parseYahooChart", "_fetchYahooSingle"} -> ret.args.chartPreviousClose
      [] ret.op = "_fetchQuoteWithFallback" -> ret.args.previous_close
      [] OTHER -> Null

MinorUnits ==
    \/ ret.op \in {"_parseTASEResult", "_fetchTASESingle"}
    \/ ret.args.currency = "ILA"

\* x / 100 where there is an x
Scaled(x) == IF x = Null THEN Null ELSE Div100(x)

\* C18, as stated: a quote made of a payload in minor units has the payload's
\* price and previous close divided by 100 and the currency 'ILS'; a quote made
\* of any other payload has them as they are; no quote has the currency 'ILA'.
C18_MinorUnitsNormalised ==
    (ret.op \in Parsers \cup {"_fetchQuoteWithFallback"} /\ ret.status = "ok"
        /\ ret.value # JSNull) =>
        /\ ret.value.currency # "ILA"
        /\ IF MinorUnits
           THEN /\ ret.value.price = Scaled(PayloadPrice)
                /\ ret.value.previousClose = Scaled(PayloadPreviousClose)
                /\ ret.value.currency = "ILS"
           ELSE /\ ret.value.price = PayloadPrice
                /\ ret.value.previousClose = PayloadPreviousClose

\* what a cache reads back as after JSON.stringify and JSON.parse
AsStored(cache) == JSONparse(JSONstringify(cache))

\* C20, as stated: with no operation under way, the stored exchange map,
\* historical cache and forex cache (an absent key being the empty map) equal the
\* ones in memory, so that a reload reconstructs them exactly.
C20_ReloadReconstructsExactly ==
    (TwelveData /\ task = Idle) =>
        /\ _loadExchangeMap(localStorage) = _exchangeMap
        /\ _loadHistoricalCache(localStorage) = _historicalCache
        /\ _loadForexCache(localStorage) = _forexCache

\* C20, amended: at every point between steps the stored exchange map, historical
\* cache and forex cache read back as the ones in memory do after JSON
\* serialisation: equal but for the numbers that are not finite, which read back
\* as null.
C20_StoreMirrorsMemory ==
    TwelveData =>
        /\ _loadExchangeMap(localStorage) = _exchangeMap
        /\ _loadHistoricalCache(localStorage) = AsStored(_historicalCache)
        /\ _loadForexCache(localStorage) = AsStored(_forexCache)

\* a fetchHistorical call ended that cached a close it could not read, with the
\* exchange map and the historical cache both in the store
C20_Witness ==
    /\ TwelveData /\ task = Idle
    /\ localStorage[HISTORICAL_CACHE_KEY] # <<>>
    /\ \E s \in DOMAIN _historicalCache : _historicalCache[s].ytdPrice = NaN

\* C19, as stated: whatever the store does (an access that throws, a quota that
\* is used up, a stored text that is not JSON or is the JSON of no object),
\* module initialisation, configure and clearCache end without an error, and the
\* module goes on with maps in memory (empty ones after a load that failed).
C19_StoreFailuresStayInside ==
    ret.op \in {"initialise", "configure", "clearCache"} =>
        /\ ret.status = "ok"
        /\ ~IsNullMap(_exchangeMap)
        /\ ~IsNullMap(_historicalCache)
        /\ ~IsNullMap(_forexCache)

\* C21, as stated: while a fetchQuotes call is in flight the quote cache is as
\* the call found it, so getCached shows nothing the call has fetched; the
\* fetched quotes are merged when all its fetches have completed.
C21_MergedAfterAllFetches ==
    (InFlight /\ task.op = "fetchQuotes") =>
        \A s \in Range(task.upper) :
            /\ s \in DOMAIN _cache <=> s \in DOMAIN task.pre.cache
            /\ s \in DOMAIN _cache => _cache[s] = task.pre.cache[s]

\* symbol s has in the cache what it had when the call in flight started
AsFound(s) ==
    /\ s \in DOMAIN _cache <=> s \in DOMAIN task.pre.cache
    /\ s \in DOMAIN _cache => _cache[s] = task.pre.cache[s]

\* C21, amended: while a fetchQuotes call of the auto-detecting client is in
\* flight the cache is as the call found it, whatever has been fetched; in the
\* Twelve Data module the cache differs from what the call found only in the
\* symbols its loop has already been through, the one being fetched and those
\* after it being as found.
C21_MergePolicyPerClient ==
    (InFlight /\ task.op = "fetchQuotes") =>
        IF AutoDetect
        THEN \A s \in DOMAIN _cache \cup DOMAIN task.pre.cache : AsFound(s)
        ELSE \A s \in DOMAIN _cache \cup DOMAIN task.pre.cache :
                 AsFound(s) \/ s \in {task.stale[k] : k \in 1..(task.i - 1)}

\* the auto-detecting client has fetched a quote and still waits for an answer
C21_Witness ==
    /\ AutoDetect /\ InFlight /\ task.op = "fetchQuotes" /\ task.pc = "requests"
    /\ DOMAIN task.fetched # {}
    /\ \E s \in DOMAIN task.fetched : s \notin DOMAIN _cache

\* C22, as stated: every call that is in flight completes, also when an
\* upstream endpoint accepts a request and never answers.
C22_EveryCallCompletes == InFlight ~> ~InFlight

\* the call of _apiCall that is under way in both states of a step
SameApiCall ==
    /\ TwelveData /\ InFlight /\ task' # Idle
    /\ task.pc \in {"fetch", "backoff"}
    /\ task'.pc \in {"fetch", "backoff"}
    /\ task.pc # task'.pc
    /\ ~(task.pc = "backoff" /\ task.attempt = 2)

\* C23: a 429 answer to _apiCall is followed by a pause of 3 s after the first
\* request and of 6 s after the later ones, and then by the same request again;
\* one call sends at most 3 requests; after the third 429 the call returns
\* null, which is not an error and leaves the symbol of fetchQuotes without
\* data; any other answer ends the call at once.
C23_RateLimitedRetries ==
    [][ (TwelveData /\ InFlight /\ task.pc \in {"fetch", "backoff"}) =>
          /\ task.attempt < 3
          /\ (SameApiCall /\ task.pc = "fetch") =>
                /\ task'.wakeAt = now + (IF task.attempt = 0 THEN 3000 ELSE 6000)
                /\ task'.attempt = task.attempt
                /\ task'.requested = task.requested
          /\ (task.pc = "backoff" /\ task.attempt < 2) =>
                /\ SameApiCall
                /\ task'.attempt = task.attempt + 1
                /\ now' >= task.wakeAt
                /\ <<task'.cur, task'.j, task'.phase>> = <<task.cur, task.j, task.phase>>
          /\ (task.pc = "backoff" /\ task.attempt = 2) =>
                /\ now' >= task.wakeAt
                /\ task' # Idle =>
                      /\ task'.pc # "backoff"
                      /\ task'.pc = "fetch" => task'.attempt = 0
                      /\ <<task'.i, task'.j, task'.phase>> # <<task.i, task.j, task.phase>>
                /\ (task' = Idle /\ task.op # "fetchForexRates") => ret'.status = "ok"
                /\ (task' = Idle /\ task.op = "_apiCall") => ret'.value.kind = "null"
                /\ (task' = Idle /\ task.op = "fetchQuotes" /\ task.cur \notin DOMAIN _cache) =>
                      ret'.value[task.cur].price = Null
          /\ (task.pc = "fetch" /\ ~SameApiCall) =>
                task' = Idle \/ task'.attempt = 0 \/ task'.pc \notin {"fetch", "backoff"}
      ]_vars

\* the third request of one call was answered with 429 as well
C23_Witness == TwelveData /\ InFlight /\ task.pc = "backoff" /\ task.attempt = 2

\* C25, as stated: the outcome of the /api/ping probe is kept for about 60
\* seconds and a fetchQuotes call after that probes again: when a call of the
\* auto-detecting client sends its requests, the last probe is at most 60
\* seconds old.
C25_ProbeExpiresAfterAMinute ==
    (AutoDetect /\ InFlight /\ task.op = "fetchQuotes" /\ task.pc = "requests"
         /\ dispatched # <<>>) =>
        now - dispatched[Len(dispatched)] <= 60000

\* the endpoints reached through the CORS relay, per provider family
RelayEndpoints(family) ==
    IF family = "yahoo" THEN {"proxy:chart"} ELSE {"proxy:securitydata", "proxy:fund"}

\* the batch request to the local server, per provider family
BatchOf(family) == IF family = "yahoo" THEN YahooBatch ELSE TaseBatch

\* the relay requests of a family that a call has sent
RelayRequests(t, family) == {x \in t.requested : x[2] \in RelayEndpoints(family)}

\* C24, as stated: the first relay request of a provider family is sent by a
\* call only when no local server is known, or in the step in which the batch
\* request to the local server has failed, nothing having been taken from its
\* answer; it is never sent when the server's answer was used.
C24_RelayOnlyAfterServerFailed ==
    [][ (AutoDetect /\ task' # Idle /\ task'.pc = "requests") =>
          \A family \in {"yahoo", "tase"} :
              LET before == IF InFlight /\ task.pc = "requests"
                            THEN RelayRequests(task, family) ELSE {}
              IN  (before = {} /\ RelayRequests(task', family) # {}) =>
                     \/ _serverBase' = NoServer
                     \/ /\ InFlight /\ task.pc = "requests"
                        /\ BatchOf(family) \in task.pending
                        /\ BatchOf(family) \notin task'.pending
                        /\ task'.fetched = task.fetched
                        /\ task'.done = task.done
      ]_vars

\* the step is one of clearCache, or loads the page again
ClearingStep == task = Idle /\ task' = Idle /\ ret'.op \in {"clearCache", "reload"}

\* C26, as stated: an entry of the historical cache that is at most 24 hours
\* old is left as it is, with its ytdPrice, oneYearAgoPrice and timestamp, by
\* every step that is not one of clearCache.
C26_HistoricalEntryKeptForADay ==
    [][ (TwelveData /\ ~ClearingStep) =>
          \A s \in DOMAIN _historicalCache :
              now' - _historicalCache[s]._ts <= _historicalCacheTTL =>
                  /\ s \in DOMAIN _historicalCache'
                  /\ _historicalCache'[s] = _historicalCache[s]
      ]_vars

\* the entry is there and at most ttl old at time n
Young(cache, k, n, ttl) == k \in DOMAIN cache /\ n - cache[k]._ts <= ttl

\* C27: a fetchHistorical call sends no request for a symbol whose entry was
\* at most 24 hours old when the call started, and a fetchForexRates call
\* that starts with a current rate at most 1 hour old and reference rates at
\* most 24 hours old completes without a request; both whatever the quote TTL
\* set by configure is.
C27_HistoricalAndForexTTLs ==
    [][ TwelveData =>
          /\ (task' # Idle /\ task'.op = "fetchHistorical") =>
                \A x \in task'.requested :
                    ~Young(task'.pre.hist, x[1], task'.t0, 24 * 60 * 60 * 1000)
          /\ ( /\ task = Idle
               /\ Young(_forexCache, "current", now, 60 * 60 * 1000)
               /\ Young(_forexCache, "ytdStart", now, 24 * 60 * 60 * 1000)
               /\ Young(_forexCache, "oneYearAgo", now, 24 * 60 * 60 * 1000) ) =>
                /\ ~(task' # Idle /\ task'.op = "fetchForexRates")
                /\ (task' = Idle /\ ret' # ret /\ ret'.op = "fetchForexRates") =>
                      ret'.requested = {}
      ]_vars

\* a fetchHistorical call for a symbol with an entry has ended without a
\* request while the quote TTL was set to 0
C27_Witness ==
    /\ TwelveData /\ task = Idle
    /\ ret.op = "fetchHistorical" /\ ret.status = "ok"
    /\ ret.args.list = <<"aapl">>
    /\ ret.requested = {}
    /\ "AAPL" \in DOMAIN _historicalCache
    /\ _cacheTTL = 0

\* the step is a call of getCached or a write to the object it returned
CachedStep == task = Idle /\ task' = Idle /\ ret' # ret /\ ret'.op = "getCached"

\* C28: getCached sends no request and changes no module state; it returns
\* null exactly when the upper-cased symbol has no cache entry, and otherwise
\* a new object with the fields of the entry except _ts; a write to the
\* returned object leaves the cache, and so what getCached and fetchQuotes
\* return later, as it was.
C28_GetCachedReadsACopy ==
    [][ CachedStep =>
          /\ ModuleState' = ModuleState
          /\ now' = now
          /\ ret'.requested = {}
          /\ ret'.status = "ok" =>
                LET s == ToUpperCase(ret'.args[1])
                IN  /\ ret'.value = JSNull <=> s \notin DOMAIN _cache
                    /\ s \in DOMAIN _cache =>
                          /\ ret'.value.fields = StripTs(_cache[s])
                          /\ "_ts" \notin DOMAIN ret'.value.fields
                          /\ ~ret'.value.shared
          /\ ret'.status = "modified" =>
                \A symbol \in InputSymbols : getCached(symbol)' = getCached(symbol)
      ]_vars

\* the caller has changed the price in the object it got for a cached symbol
C28_Witness ==
    /\ task = Idle
    /\ ret.op = "getCached" /\ ret.status = "modified"
    /\ LET s == ToUpperCase(ret.args[1])
       IN  /\ s \in DOMAIN _cache
           /\ _cache[s].price # Null
           /\ _cache[s].price # ret.value.fields.price

Retried == task' # Idle /\ task'.pc = task.pc /\ task'.attempt # task.attempt

C30_NoExpiredQuoteServed ==
    [][ (InFlight /\ task.op = "fetchQuotes" /\ task' = Idle /\ ret'.status = "ok") =>
          \A s \in Range(task.stale) :
              (s \in DOMAIN task.pre.cache /\ ret'.value[s] # JSNull
                   /\ ret'.value[s].price # Null) =>
                  _cache'[s]._ts # task.pre.cache[s]._ts
      ]_vars

\* the requests sent to Twelve Data in the 60 seconds that end now, while a
\* request is in flight: the first requests of the calls recorded in that time,
\* and the requests that the call in flight has sent again after a 429 (the
\* pauses in front of them are 3 s and 6 s)
RequestsInWindow ==
    Len(SelectSeq(_callTimestamps, LAMBDA t : InWindow(now, t))) + task.attempt

\* C31, as stated: in any 60 seconds at most 8 requests are sent to Twelve
\* Data through _apiCall, the requests sent again after a 429 included.
C31_EveryRequestCounted ==
    (TwelveData /\ InFlight /\ task.pc = "fetch") =>
        RequestsInWindow <= MAX_CALLS_PER_MINUTE

\* C32, as stated: also when calls of _apiCall overlap, at most 8 of the
\* recorded calls lie in the 60 seconds that end now.
C32_QuotaHoldsForOverlappingCalls ==
    impl = "overlap" =>
        Len(SelectSeq(_callTimestamps, LAMBDA t : InWindow(now, t))) <= MAX_CALLS_PER_MINUTE

\* the endpoints of the local server
ServerEndpoints == {YahooBatch.ep, TaseBatch.ep}

\* C33, as stated: once the probe has found the local server, every call
\* that is sending its requests, also one that was started while the probe
\* of another call was in flight, has asked the server's batch endpoint.
C33_EveryCallUsesTheServerFound ==
    (impl = "probe" /\ _serverBase # NoServer) =>
        \A c \in Callers :
            (task.callers[c] # Idle /\ task.callers[c].pc = "requests"
                 /\ task.callers[c].requested # {}) =>
                \E x \in task.callers[c].requested : x[2] \in ServerEndpoints

\* C34, as stated: while a fetchQuotes call of the auto-detecting client is
\* under way, the counter handed to the progress callback has not gone beyond
\* the number of stale symbols.
C34_ProgressWithinTotal ==
    (AutoDetect /\ InFlight /\ task.pc = "requests") => task.done <= Len(task.stale)

\* an attempt with an OK status and a wrapped status code below 400
OkBelow400(r) ==
    r.kind = "answer" /\ r.ok /\ r.body.shape = "wrapped" /\ r.body.http_code = 200

\* C35, as stated: while _proxiedFetch is still running, none of the attempts
\* made so far had an OK status and a wrapped status code below 400 (the first
\* such attempt ends the call).
C35_FirstOkAttemptReturned ==
    (impl = "proxied" /\ InFlight) => \A a \in task.seen : ~OkBelow400(a[2])

\* an answer the call returns on: an OK status and a JSON body that is null, has
\* no contents field, or has a wrapped status code absent or below 400 and
\* contents that parse
ReturnedOn(r) ==
    /\ r.kind = "answer"
    /\ r.ok
    /\ \/ r.body.shape \in {"null", "raw"}
       \/ /\ r.body.shape = "wrapped"
          /\ r.body.http_code < 400
          /\ r.body.contents # "<html>"

\* what the call returns on such an answer
PayloadOf(r) ==
    IF r.body.shape = "null" THEN JSNull
    ELSE IF r.body.shape = "raw" THEN [raw |-> TRUE]
    ELSE [a |-> 1]

\* C35, amended: _proxiedFetch sends at most retries + 1 requests (3 by
\* default), attempt k > 0 starts 1000 * k ms after the attempt before it
\* ended, the first answer that is returned on ends the call with its payload
\* and without a further request, any other answer leads to the next attempt or,
\* after the last one, to null, and the call never rejects.
C35_ProxiedFetchRetries ==
    [][impl = "proxied" =>
        LET after == IF task' = Idle THEN ret'.seen ELSE task'.seen
            r == CHOOSE x \in ProxyAnswers : <<task.attempt, x>> \in after
        IN  /\ (task' # Idle) =>
                   /\ Len(task'.sentAt) <= Retries(task'.args) + 1
                   /\ (task'.args.retries = <<>> => Len(task'.sentAt) <= 3)
            /\ (InFlight /\ task.pc = "pause") =>
                   /\ task' # Idle
                   /\ task'.pc = "fetch"
                   /\ task'.attempt = task.attempt + 1
                   /\ now' = now + 1000 * task'.attempt
                   /\ task'.sentAt = Append(task.sentAt, now')
            /\ (InFlight /\ task.pc = "fetch") =>
                   /\ now' = now
                   /\ ReturnedOn(r) =>
                          /\ task' = Idle
                          /\ ret'.status = "ok"
                          /\ ret'.value = PayloadOf(r)
                   /\ (~ReturnedOn(r) /\ task.attempt < Retries(task.args)) =>
                          /\ task' # Idle
                          /\ task'.pc = "pause"
                          /\ task'.sentAt = task.sentAt
                   /\ (~ReturnedOn(r) /\ task.attempt = Retries(task.args)) =>
                          /\ task' = Idle
                          /\ ret'.status = "ok"
                          /\ ret'.value = JSNull]_vars

\* a call with the default retries returned the payload of its third attempt,
\* after an attempt with an OK status and wrapped status 200 whose contents did
\* not parse
C35_Witness ==
    /\ impl = "proxied"
    /\ task = Idle
    /\ ret.op = "_proxiedFetch"
    /\ ret.args.retries = <<>>
    /\ ret.value = [a |-> 1]
    /\ Cardinality(ret.seen) = 3
    /\ \E a \in ret.seen : a[1] < 2 /\ OkBelow400(a[2])

\* C36, as stated: a 401 answer for a variant of ticker S ends the requests for S
\* (the call goes on to the next stale symbol or completes without rejecting),
\* and the exchange map stays as it was, in memory and in the store.
C36_InvalidKeyStopsTheTrial ==
    [][\A r \in QuoteResponses :
          (AskingProvider /\ r.kind = "json" /\ r.json.code = 401 /\ ApiRespond(r)) =>
              /\ _exchangeMap' = _exchangeMap
              /\ localStorage' = localStorage
              /\ IF task' = Idle
                 THEN ret'.status = "ok"
                 ELSE task'.i = task.i + 1]_vars

\* the step is a call of clearCache
ClearCacheStep ==
    task = Idle /\ task' = Idle /\ ret'.op = "clearCache" /\ now' = now /\ left' # left

\* C37: clearCache of the Twelve Data module leaves the quote cache, the
\* historical cache, the exchange map and the forex cache empty and their three
\* keys absent from the store; the API key in memory and in the store, the TTL,
\* the progress callback and the rate-limit window are as before.
C37_ClearCacheFrame ==
    [][(TwelveData /\ ClearCacheStep) =>
          /\ _cache' = EmptyMap
          /\ _historicalCache' = EmptyMap
          /\ _exchangeMap' = EmptyMap
          /\ _forexCache' = EmptyMap
          /\ \A k \in {EXCHANGE_MAP_KEY, HISTORICAL_CACHE_KEY, FOREX_CACHE_KEY} :
                 localStorage'[k] = <<>>
          /\ localStorage'[STORAGE_KEY] = localStorage[STORAGE_KEY]
          /\ _apiKey' = _apiKey
          /\ _cacheTTL' = _cacheTTL
          /\ _onProgress' = _onProgress
          /\ _callTimestamps' = _callTimestamps]_vars

\* clearCache removed cached data of a module that has a stored API key and
\* recorded calls in its rate-limit window
C37_Witness ==
    /\ TwelveData
    /\ JustCleared
    /\ ~ret.same
    /\ _apiKey # ""
    /\ localStorage[STORAGE_KEY] # <<>>
    /\ _callTimestamps # <<>>

(* ---------------------------------------------------------------------- *)
(* The Twelve Data client asked for one TASE number over more than a day:  *)
(* quotes through the relays, fetchHistorical, and the clock passing the   *)
(* 24 hours of the historical cache.                                       *)
(* ---------------------------------------------------------------------- *)
\* the calls: the TASE number alone
TaseArgs == {[null |-> FALSE, list |-> <<"512345">>]}

\* more than _historicalCacheTTL passes between two calls
DayTick ==
    /\ CanStart(1)
    /\ left' = left - 1
    /\ now' = now + _historicalCacheTTL + 1
    /\ UNCHANGED <<impl, _cache, _historicalCache, _forexCache, _cacheTTL, _apiKey,
                   _exchangeMap, _onProgress, _callTimestamps, _serverBase, _serverProbed,
                   localStorage, task, ret, dispatched, configuredKey>>

InitYear == Init /\ impl = "twelvedata"

NextYear ==
    \/ \E symbols \in TaseArgs : FetchQuotes(symbols)
    \/ \E symbols \in TaseArgs : FetchHistorical(symbols)
    \/ \E r \in ProxyResponses : ProxyRespond(r)
    \/ \E d \in Deltas : Tick(d)
    \/ DayTick

SpecYear == InitYear /\ [][NextYear]_vars

\* the historical cache holds a one-year-ago price for s
HasYearAgo(hist, s) == s \in DOMAIN hist /\ hist[s].oneYearAgoPrice # Null

\* C38, as stated: once the historical cache holds a one-year-ago price for a
\* TASE number, every step that is not one of clearCache leaves it with a
\* one-year-ago price.
C38_YearAgoPriceStays ==
    [][(TwelveData /\ ~ClearingStep) =>
          \A s \in DOMAIN _historicalCache :
              (_isTaseNumber(s) /\ HasYearAgo(_historicalCache, s)) =>
                  HasYearAgo(_historicalCache', s)]_vars

\* the step is a public call that completes without an await
DirectCall(op) ==
    task = Idle /\ task' = Idle /\ now' = now /\ left' # left /\ ret'.op = op

\* every rate of the forex cache is within its TTL
ForexFresh ==
    /\ "current" \in DOMAIN _forexCache
    /\ now - _forexCache["current"]._ts <= _forexCacheTTL
    /\ "ytdStart" \in DOMAIN _forexCache
    /\ now - _forexCache["ytdStart"]._ts <= _historicalCacheTTL

\* C39, as stated: a fetchQuotes, fetchHistorical or fetchForexRates call of the
\* Twelve Data module that finds everything it is asked for within the TTL of
\* its cache does not reject, whether an API key is set or not.
C39_FreshCallsNeedNoKey ==
    [][TwelveData =>
          /\ (DirectCall("fetchQuotes") /\ ~IsEmptyArg(ret'.args)
                /\ \A s \in Range(Upper(ret'.args.list)) :
                       ~IsStale(_cache, _cacheTTL, now, s))
                 => ret'.status = "ok"
          /\ (DirectCall("fetchHistorical") /\ ~IsEmptyArg(ret'.args)
                /\ \A s \in Range(Upper(ret'.args.list)) :
                       ~IsStaleHistorical(_historicalCache, now, s))
                 => ret'.status = "ok"
          /\ (DirectCall("fetchForexRates") /\ ForexFresh) => ret'.status = "ok"]_vars

====
